---- MODULE Spec2Model ----
(***************************************************************************)
(* A model of osc.osc (src/osc/osc.py): the OSC type codec, the message    *)
(* and bundle codecs, the UDP client and the UDP request handler.          *)
(*                                                                         *)
(* Representation.                                                         *)
(*   bytes        a sequence over 0..255                                   *)
(*   str          a sequence of code points                                *)
(*   Python value a record with the field py naming its type               *)
(*   int          sign and magnitude, the magnitude a big-endian sequence  *)
(*                of bytes without leading zeros (Python ints have no      *)
(*                width; struct.pack gives them one)                       *)
(*   float        sign, integer part (a magnitude) and a reduced fraction  *)
(*                num/den                                                  *)
(*   a call       a record [ok, value, index, err]: the returned value and *)
(*                read offset, or the name of the exception raised         *)
(***************************************************************************)
EXTENDS Integers, Sequences, FiniteSets, TLC

VARIABLES
    msgs,        \* the OSCMessage objects the program holds, by identity
    bundle,      \* the OSCBundle object the program holds
    last,        \* the last call made: its name, its input, how it ended
    now,         \* calendar.timegm(time.gmtime()): the clock, in seconds
    clients,     \* OSCClient._clients: the list of (address, port)
    socket,      \* OSCClient._socket: the socket object it refers to
    closed,      \* OSCClient._closed
    sockets,     \* the socket objects the client created: times each was closed
    sent,        \* the sendto calls of the last send()
    queue,       \* the datagrams in the server's socket, oldest first
    arrived,     \* every datagram the server's socket received, in order
    handled      \* the calls of OSCServer.handle, in order

Min(a, b) == IF a < b THEN a ELSE b
Max(a, b) == IF a > b THEN a ELSE b

RECURSIVE Pow(_, _)
Pow(b, n) == IF n = 0 THEN 1 ELSE b * Pow(b, n - 1)

(***************************************************************************)
(* Python sequence primitives.                                             *)
(***************************************************************************)
\* the clamping of a slice bound: a negative bound counts from the end
PyBound(n, i) == IF i < 0 THEN Max(n + i, 0) ELSE Min(i, n)

\* data[i:j]
PySlice(data, i, j) ==
    LET a == PyBound(Len(data), i)
        b == PyBound(Len(data), j)
    IN  IF a >= b THEN <<>> ELSE SubSeq(data, a + 1, b)

\* data[i:]
PyFrom(data, i) == PySlice(data, i, Len(data))

\* data[i] is defined (no IndexError)
PyHas(data, i) == i < Len(data) /\ i >= -Len(data)

\* data[i], for PyHas(data, i)
PyAt(data, i) == IF i < 0 THEN data[Len(data) + i + 1] ELSE data[i + 1]

\* b'\x00' * n
Zeros(n) == [k \in 1..Max(n, 0) |-> 0]

\* data.startswith(prefix)
StartsWith(data, prefix) ==
    Len(data) >= Len(prefix) /\ SubSeq(data, 1, Len(prefix)) = prefix

\* data.replace(b'\x00', b'')
RECURSIVE DropZeros(_)
DropZeros(data) ==
    IF data = <<>> THEN <<>>
    ELSE IF Head(data) = 0 THEN DropZeros(Tail(data))
         ELSE <<Head(data)>> \o DropZeros(Tail(data))

(***************************************************************************)
(* Calls: what a function returns or raises.                               *)
(***************************************************************************)
NoValue == [py |-> "novalue"]
Ret(v, i) == [ok |-> TRUE, value |-> v, index |-> i, err |-> "none"]
Raise(e) == [ok |-> FALSE, value |-> NoValue, index |-> 0, err |-> e]

(***************************************************************************)
(* Magnitudes: naturals of any size as big-endian byte sequences.          *)
(***************************************************************************)
RECURSIVE StripZeros(_)
StripZeros(mag) ==
    IF mag # <<>> /\ Head(mag) = 0 THEN StripZeros(Tail(mag)) ELSE mag

RECURSIVE NatToMag(_)
NatToMag(n) == IF n = 0 THEN <<>> ELSE NatToMag(n \div 256) \o <<n % 256>>

\* the natural a magnitude below 2^31 stands for
RECURSIVE MagToNat(_)
MagToNat(mag) ==
    IF mag = <<>> THEN 0
    ELSE MagToNat(SubSeq(mag, 1, Len(mag) - 1)) * 256 + mag[Len(mag)]

FitsNat(mag) == Len(mag) < 4 \/ (Len(mag) = 4 /\ mag[1] < 128)

\* mag as exactly w bytes (for Len(mag) <= w)
PadTo(mag, w) == Zeros(w - Len(mag)) \o mag

RECURSIVE MagLess(_, _)
MagLess(a, b) ==
    IF Len(a) # Len(b) THEN Len(a) < Len(b)
    ELSE IF a = <<>> THEN FALSE
    ELSE IF Head(a) # Head(b) THEN Head(a) < Head(b)
    ELSE MagLess(Tail(a), Tail(b))

\* a + b + carry on equal-length byte strings, one byte longer
RECURSIVE AddBytes(_, _, _)
AddBytes(a, b, carry) ==
    IF a = <<>> THEN <<carry>>
    ELSE LET n == Len(a)
             s == a[n] + b[n] + carry
         IN  AddBytes(SubSeq(a, 1, n - 1), SubSeq(b, 1, n - 1), s \div 256)
                 \o <<s % 256>>

MagAdd(a, b) ==
    LET w == Max(Len(a), Len(b))
    IN  StripZeros(AddBytes(PadTo(a, w), PadTo(b, w), 0))

\* a - b - borrow on equal-length byte strings, for a >= b
RECURSIVE SubBytes(_, _, _)
SubBytes(a, b, borrow) ==
    IF a = <<>> THEN <<>>
    ELSE LET n == Len(a)
             d == a[n] - b[n] - borrow
         IN  SubBytes(SubSeq(a, 1, n - 1), SubSeq(b, 1, n - 1),
                      IF d < 0 THEN 1 ELSE 0)
                 \o <<IF d < 0 THEN d + 256 ELSE d>>

\* a - b, for a >= b
MagSub(a, b) ==
    LET w == Max(Len(a), Len(b))
    IN  StripZeros(SubBytes(PadTo(a, w), PadTo(b, w), 0))

\* 2^(8w) - mag as w bytes, for 0 < mag <= 2^(8w): the two's complement
TwosComplement(mag, w) ==
    LET full == SubBytes(<<1>> \o Zeros(w), PadTo(mag, w + 1), 0)
    IN  SubSeq(full, 2, w + 1)

(***************************************************************************)
(* Python values.                                                          *)
(***************************************************************************)
PyInt(neg, mag) == [py |-> "int", neg |-> neg /\ mag # <<>>, mag |-> mag]
IntV(n) == IF n < 0 THEN PyInt(TRUE, NatToMag(-n)) ELSE PyInt(FALSE, NatToMag(n))
\* the float +-(ip + num / (2^e2 * 5^e5)), the fraction reduced and below 1
PyFloat(neg, ip, num, e2, e5) ==
    [py |-> "float", neg |-> neg /\ (ip # <<>> \/ num # 0),
     ip |-> ip, num |-> num, e2 |-> e2, e5 |-> e5]
\* inf and nan, kept as the bit pattern they were read from
PyFloatSpecial(bits) == [py |-> "float", special |-> bits]
PyStr(s) == [py |-> "str", s |-> s]
PyBytes(b) == [py |-> "bytes", b |-> b]
PyBool(v) == [py |-> "bool", v |-> v]
PyNone == [py |-> "None"]
PyOSCImpulse == [py |-> "OSCImpulse"]
PyOSCColor(r, g, b, a) == [py |-> "OSCColor", r |-> r, g |-> g, b |-> b, a |-> a]
PyOSCMidi(port, status, data1, data2) ==
    [py |-> "OSCMidi", port |-> port, status |-> status,
     data1 |-> data1, data2 |-> data2]


\* bool(value)
PyTruthy(v) ==
    CASE v.py = "int" -> v.mag # <<>>
      [] v.py = "float" -> ~(v = PyFloat(FALSE, <<>>, 0, 0, 0))
      [] v.py = "str" -> v.s # <<>>
      [] v.py = "bytes" -> v.b # <<>>
      [] v.py = "bool" -> v.v
      [] v.py = "None" -> FALSE
      [] OTHER -> TRUE

\* a == b on Python values: numbers compare by value across int, float and
\* bool; objects without __eq__ (OSCColor, OSCMidi, OSCImpulse) are compared by
\* their fields here, which is the tag-aware equality of the round-trip laws
AsNumber(v) ==
    CASE v.py = "int" -> PyFloat(v.neg, v.mag, 0, 0, 0)
      [] v.py = "bool" -> PyFloat(FALSE, IF v.v THEN <<1>> ELSE <<>>, 0, 0, 0)
      [] OTHER -> v
PyEq(a, b) == AsNumber(a) = AsNumber(b)

(***************************************************************************)
(* struct.pack / struct.unpack for the formats the codec uses.             *)
(***************************************************************************)
\* a value struct accepts for an integer format, as an int
StructInt(v) == IF v.py = "bool" THEN IntV(IF v.v THEN 1 ELSE 0) ELSE v

\* struct.pack('>i' | '>I' | '>q', v): w bytes, signed or not
StructPackInt(v, w, signed) ==
    IF v.py \notin {"int", "bool"} THEN Raise("struct.error")
    ELSE LET x == StructInt(v)
             fits ==
                 IF signed
                 THEN \/ Len(x.mag) < w
                      \/ Len(x.mag) = w /\ x.mag[1] < 128
                      \/ x.neg /\ x.mag = <<128>> \o Zeros(w - 1)
                 ELSE ~x.neg /\ Len(x.mag) <= w
         IN  IF ~fits THEN Raise("struct.error")
             ELSE Ret(IF x.neg THEN TwosComplement(x.mag, w)
                      ELSE PadTo(x.mag, w), -1)

\* struct.unpack('>i' | '>I' | '>q', data)[0]
StructUnpackInt(data, w, signed) ==
    IF Len(data) # w THEN Raise("struct.error")
    ELSE IF signed /\ data[1] >= 128
         THEN Ret(PyInt(TRUE, StripZeros(TwosComplement(StripZeros(data), w))), -1)
         ELSE Ret(PyInt(FALSE, StripZeros(data)), -1)

\* struct.pack('>BBBB', a, b, c, d) on small ints (None for a missing field)
StructPackBBBB(f) ==
    IF \A k \in 1..4 : f[k] \in 0..255 THEN Ret(f, -1) ELSE Raise("struct.error")

RECURSIVE Log2(_)
Log2(n) == IF n < 2 THEN 0 ELSE 1 + Log2(n \div 2)

\* bytes * k + carry for a factor k of at most 256
RECURSIVE MulBytes(_, _, _)
MulBytes(a, k, carry) ==
    IF a = <<>> THEN <<carry \div 256, carry % 256>>
    ELSE LET n == Len(a)
             s == a[n] * k + carry
         IN  MulBytes(SubSeq(a, 1, n - 1), k, s \div 256) \o <<s % 256>>

\* mag * 2^bits
MagShl(mag, bits) ==
    StripZeros(MulBytes(mag, Pow(2, bits % 8), 0) \o Zeros(bits \div 8))

\* the number of factors p of n (n > 0), at most limit
RECURSIVE Factors(_, _, _)
Factors(n, p, limit) ==
    IF limit = 0 \/ n % p # 0 THEN 0 ELSE 1 + Factors(n \div p, p, limit - 1)

\* the float +-(ip + num / (2^a * 5^b)) with the fraction reduced
MkFloat(neg, ip, num, a, b) ==
    IF num = 0 THEN PyFloat(neg, ip, 0, 0, 0)
    ELSE LET f2 == Factors(num, 2, a)
             n2 == num \div Pow(2, f2)
             f5 == Factors(n2, 5, b)
         IN  PyFloat(neg, ip, n2 \div Pow(5, f5), a - f2, b - f5)

\* the float +-(t * 2^e) for a natural t below 2^31
FloatFromDyadic(neg, t, e) ==
    IF t = 0 THEN PyFloat(FALSE, <<>>, 0, 0, 0)
    ELSE IF e >= 0 THEN PyFloat(neg, MagShl(NatToMag(t), e), 0, 0, 0)
    ELSE LET tz == Factors(t, 2, -e)
             u == t \div Pow(2, tz)
             k == -e - tz
         IN  IF k = 0 THEN PyFloat(neg, NatToMag(u), 0, 0, 0)
             ELSE IF k > Log2(u) THEN PyFloat(neg, <<>>, u, k, 0)
             ELSE PyFloat(neg, NatToMag(u \div Pow(2, k)), u % Pow(2, k), k, 0)

\* the value a float format packs: a float, or an int or bool converted to one
StructFloat(v) == AsNumber(v)

\* for a dyadic float the naturals <<t, k>> with |v| = t / 2^k
Dyadic(v) ==
    IF v.ip = <<>> THEN <<v.num, v.e2>>
    ELSE <<MagToNat(v.ip) * Pow(2, v.e2) + v.num, v.e2>>

\* t (p = Log2(t)) rounded half-even to a (bits+1)-bit significand: <<m, carry>>
Significand(t, bits) ==
    LET p == Log2(t)
    IN  IF p <= bits THEN <<t * Pow(2, bits - p), 0>>
        ELSE LET s == p - bits
                 q == t \div Pow(2, s)
                 r == t % Pow(2, s)
                 half == Pow(2, s - 1)
                 up == r > half \/ (r = half /\ q % 2 = 1)
                 m == IF up THEN q + 1 ELSE q
             IN  IF m = Pow(2, bits + 1) THEN <<Pow(2, bits), 1>> ELSE <<m, 0>>

_FLOAT_BIAS == 127
_FLOAT_BITS == 23
_DOUBLE_BIAS == 1023
_DOUBLE_BITS == 52

\* struct.pack('>f', v)
StructPackFloat(v) ==
    IF v.py \notin {"int", "float", "bool"} THEN Raise("struct.error")
    ELSE LET x == StructFloat(v)
             sign == IF x.neg THEN 128 ELSE 0
             d == Dyadic(x)
             sg == Significand(d[1], _FLOAT_BITS)
             biased == Log2(d[1]) - d[2] + sg[2] + _FLOAT_BIAS
             frac == sg[1] - Pow(2, _FLOAT_BITS)
         IN  IF d[1] = 0 THEN Ret(<<sign, 0, 0, 0>>, -1)
             ELSE IF biased >= 255 THEN Raise("OverflowError")
             ELSE IF biased <= 0
                  THEN LET sub == IF 1 - biased > _FLOAT_BITS + 1 THEN 0
                                  ELSE sg[1] \div Pow(2, 1 - biased)
                       IN  Ret(<<sign, sub \div 65536, (sub \div 256) % 256,
                                 sub % 256>>, -1)
             ELSE Ret(<<sign + biased \div 2,
                        (biased % 2) * 128 + frac \div 65536,
                        (frac \div 256) % 256, frac % 256>>, -1)

\* struct.unpack('>f', data)[0]
StructUnpackFloat(data) ==
    IF Len(data) # 4 THEN Raise("struct.error")
    ELSE LET neg == data[1] >= 128
             biased == (data[1] % 128) * 2 + data[2] \div 128
             frac == (data[2] % 128) * 65536 + data[3] * 256 + data[4]
         IN  IF biased = 255 THEN Ret(PyFloatSpecial(data), -1)
             ELSE IF biased = 0
                  THEN Ret(FloatFromDyadic(neg, frac, -126 - _FLOAT_BITS), -1)
             ELSE Ret(FloatFromDyadic(neg, Pow(2, _FLOAT_BITS) + frac,
                                      biased - _FLOAT_BIAS - _FLOAT_BITS), -1)

\* struct.pack('>d', v); every float of the model is exact in 53 bits
StructPackDouble(v) ==
    IF v.py \notin {"int", "float", "bool"} THEN Raise("struct.error")
    ELSE LET x == StructFloat(v)
             sign == IF x.neg THEN 128 ELSE 0
             d == Dyadic(x)
             p == Log2(d[1])
             biased == p - d[2] + _DOUBLE_BIAS
             frac == PadTo(MagShl(NatToMag(d[1] - Pow(2, p)), _DOUBLE_BITS - p), 7)
         IN  IF d[1] = 0 THEN Ret(<<sign>> \o Zeros(7), -1)
             ELSE Ret(<<sign + biased \div 16, (biased % 16) * 16 + frac[1]>>
                      \o SubSeq(frac, 2, 7), -1)

\* struct.unpack('>d', data)[0], for the doubles whose significand has its low
\* 32 bits clear (every double the model packs has)
StructUnpackDouble(data) ==
    IF Len(data) # 8 THEN Raise("struct.error")
    ELSE LET neg == data[1] >= 128
             biased == (data[1] % 128) * 16 + data[2] \div 16
             f20 == (data[2] % 16) * 65536 + data[3] * 256 + data[4]
             low == MagToNat(StripZeros(SubSeq(data, 5, 8)))
         IN  IF biased = 2047 \/ low # 0 THEN Ret(PyFloatSpecial(data), -1)
             ELSE IF biased = 0 THEN Ret(FloatFromDyadic(neg, f20, -1022 - 20), -1)
             ELSE Ret(FloatFromDyadic(neg, Pow(2, 20) + f20,
                                      biased - _DOUBLE_BIAS - 20), -1)

(***************************************************************************)
(* NTP time.                                                               *)
(***************************************************************************)
\* struct.pack('>q', 1)
NTP_IMMEDIATELY == <<0, 0, 0, 0, 0, 0, 0, 1>>

\* (1970-01-01 - 1900-01-01).days * 24 * 3600 = 2208988800, as a magnitude
_NTP_DELTA == <<131, 170, 126, 128>>

IMMEDIATELY == IntV(0)

\* x + d for a number x and a natural d (a magnitude); a float stays a float,
\* an int an int.  Floats of the model carry at most MaxFracDigits fraction
\* digits, so the sum is exact in a double.
NumAdd(x, d) ==
    LET frac == x.py = "float" /\ x.num # 0
        den == IF frac THEN Pow(2, x.e2) * Pow(5, x.e5) ELSE 1
        num == IF frac THEN x.num ELSE 0
        e2 == IF frac THEN x.e2 ELSE 0
        e5 == IF frac THEN x.e5 ELSE 0
        ip == IF x.py = "float" THEN x.ip ELSE x.mag
        mk(neg, i, n) ==
            IF x.py = "float" THEN PyFloat(neg, i, n, IF n = 0 THEN 0 ELSE e2,
                                           IF n = 0 THEN 0 ELSE e5)
            ELSE PyInt(neg, i)
    IN  IF ~x.neg THEN mk(FALSE, MagAdd(ip, d), num)
        ELSE IF num = 0
             THEN IF MagLess(d, ip) THEN mk(TRUE, MagSub(ip, d), 0)
                  ELSE mk(FALSE, MagSub(d, ip), 0)
        ELSE IF MagLess(ip, d) THEN mk(FALSE, MagSub(MagSub(d, ip), <<1>>), den - num)
        ELSE mk(TRUE, MagSub(ip, d), num)

\* x - d for a float x and a natural d
NumSub(x, d) ==
    LET n == NumAdd([x EXCEPT !.neg = ~x.neg /\ (x.ip # <<>> \/ x.num # 0)], d)
    IN  [n EXCEPT !.neg = ~n.neg /\ (n.ip # <<>> \/ n.num # 0)]

\* ntp_to_time(date)
ntp_to_time(date) == NumSub(date, _NTP_DELTA)

\* the digits after the point in str(x) of a float, as <<value, count>>:
\* "25" is <<25, 2>>, "05" is <<5, 2>>, and a whole float prints ".0"
FractionDigits(x) ==
    IF x.num = 0 THEN <<0, 1>>
    ELSE LET d == Max(x.e2, x.e5)
         IN  <<x.num * Pow(2, d - x.e2) * Pow(5, d - x.e5), d>>

\* len(str(n)) for a natural n
RECURSIVE NumDigits(_)
NumDigits(n) == IF n < 10 THEN 1 ELSE 1 + NumDigits(n \div 10)

\* time_to_ntp(date)
time_to_ntp(date) ==
    IF date.py \notin {"int", "float", "bool"} THEN Raise("NTPError")
    ELSE LET ntp == NumAdd(StructInt(date), _NTP_DELTA)
             \* num_secs, fraction = str(ntp).split('.')
             secs == StructPackInt(PyInt(ntp.neg, ntp.ip), 4, FALSE)
             frac == StructPackInt(IntV(FractionDigits(ntp)[1]), 4, FALSE)
         IN  IF ntp.py = "int" THEN Raise("ValueError")
             ELSE IF ~secs.ok THEN secs
             ELSE IF ~frac.ok THEN frac
             ELSE Ret(secs.value \o frac.value, -1)

(***************************************************************************)
(* OSCType: the type tags and the per-type readers and writers.  Each      *)
(* OSCType_x(data, index) writes the value data when index is -1 and reads *)
(* from the datagram data at index otherwise, as the source does.          *)
(***************************************************************************)
TYPE_INT == 105
TYPE_UINT == 117
TYPE_CHAR == 99
TYPE_BLOB == 98
TYPE_MIDI == 109
TYPE_NULL == 78
TYPE_TRUE == 84
TYPE_FALSE == 70
TYPE_FLOAT == 102
TYPE_COLOR == 114
TYPE_STRING == 115
TYPE_IMPULSE == 73
TYPE_TIMETAG == 116
TYPE_DOUBLE == 100
TYPE_INT64 == 104
TYPE_UTF8_STRING == 83

_SUPPORTED_TYPES ==
    {TYPE_INT, TYPE_UINT, TYPE_CHAR, TYPE_BLOB, TYPE_MIDI, TYPE_NULL, TYPE_TRUE,
     TYPE_FALSE, TYPE_FLOAT, TYPE_COLOR, TYPE_STRING, TYPE_IMPULSE, TYPE_TIMETAG,
     TYPE_INT64, TYPE_DOUBLE, TYPE_UTF8_STRING}

\* the keys of TYPES_MAP
TYPES_MAP ==
    {TYPE_INT, TYPE_UINT, TYPE_CHAR, TYPE_BLOB, TYPE_MIDI, TYPE_FLOAT, TYPE_COLOR,
     TYPE_STRING, TYPE_TIMETAG, TYPE_DOUBLE, TYPE_INT64, TYPE_UTF8_STRING}

_INT_DGRAM_LEN == 4
_UINT_DGRAM_LEN == 4
_BLOB_DGRAM_PAD == 4
_FLOAT_DGRAM_LEN == 4
_STRING_DGRAM_PAD == 4
_TIMETAG_DGRAM_LEN == 8
_COLOR_DGRAM_LEN == 4
_MIDI_DGRAM_LEN == 4
_DOUBLE_DGRAM_LEN == 8
_INT64_DGRAM_LEN == 8
_CHAR_DGRAM_LEN == 4

\* is_supported(_type), _type a str
OSCType_is_supported(_type) == \E t \in _SUPPORTED_TYPES : _type = <<t>>

\* has_datagram(_type)
OSCType_has_datagram(_type) == \E t \in TYPES_MAP : _type = <<t>>

\* tag(value)
OSCType_tag(value) ==
    CASE value.py = "str" -> <<TYPE_STRING>>
      [] value.py = "bytes" -> <<TYPE_BLOB>>
      [] value.py = "int" -> <<TYPE_INT>>
      [] value.py = "float" -> <<TYPE_FLOAT>>
      [] value.py = "bool" -> IF value.v THEN <<TYPE_TRUE>> ELSE <<TYPE_FALSE>>
      [] value.py = "None" -> <<TYPE_NULL>>
      [] value.py = "OSCColor" -> <<TYPE_COLOR>>
      [] value.py = "OSCMidi" -> <<TYPE_MIDI>>
      [] value.py = "OSCImpulse" -> <<TYPE_IMPULSE>>
      [] OTHER -> <<TYPE_NULL>>

\* the offset of the first zero byte at or after index: the loop
\* "while data[index + offset] != 0: offset += 1"; -1 for IndexError
RECURSIVE ZeroOffset(_, _, _)
ZeroOffset(data, index, offset) ==
    IF ~PyHas(data, index + offset) THEN -1
    ELSE IF PyAt(data, index + offset) = 0 THEN offset
    ELSE ZeroOffset(data, index, offset + 1)

\* the read half of string and utf8_string, up to the decoding: the bytes of
\* the string without its zeros, and the next index
StringRead(data, index) ==
    LET found == ZeroOffset(data, index, 0)
        offset == IF found % _STRING_DGRAM_PAD = 0 THEN found + _STRING_DGRAM_PAD
                  ELSE found + ((-found) % _STRING_DGRAM_PAD)
    IN  IF found = -1 THEN Raise("OSCParseError")
        ELSE IF found = 0 THEN Raise("OSCParseError")
        ELSE IF offset > Len(PyFrom(data, index)) THEN Raise("OSCParseError")
        ELSE Ret(DropZeros(PySlice(data, index, index + offset)), index + offset)

\* the write half of string and utf8_string after the encoding
StringWrite(dgram) ==
    Ret(dgram \o Zeros(_STRING_DGRAM_PAD - (Len(dgram) % _STRING_DGRAM_PAD)), -1)

\* str.encode('utf-8') of one code point; <<>> for a surrogate
Utf8Char(c) ==
    IF c < 128 THEN <<c>>
    ELSE IF c < 2048 THEN <<192 + c \div 64, 128 + (c % 64)>>
    ELSE IF c >= 55296 /\ c < 57344 THEN <<>>
    ELSE IF c < 65536
         THEN <<224 + c \div 4096, 128 + ((c \div 64) % 64), 128 + (c % 64)>>
    ELSE <<240 + c \div 262144, 128 + ((c \div 4096) % 64),
           128 + ((c \div 64) % 64), 128 + (c % 64)>>

RECURSIVE Utf8Encode(_)
Utf8Encode(s) == IF s = <<>> THEN <<>> ELSE Utf8Char(Head(s)) \o Utf8Encode(Tail(s))

\* bytes.decode('utf-8'): the code points, or <<-1>> for UnicodeDecodeError
RECURSIVE Utf8Decode(_)
Utf8Decode(b) ==
    IF b = <<>> THEN <<>>
    ELSE LET n == IF b[1] < 128 THEN 1
                  ELSE IF b[1] >= 194 /\ b[1] < 224 THEN 2
                  ELSE IF b[1] >= 224 /\ b[1] < 240 THEN 3
                  ELSE IF b[1] >= 240 /\ b[1] < 245 THEN 4 ELSE 0
             cont == n > 0 /\ Len(b) >= n /\ \A k \in 2..n : b[k] \in 128..191
             c == CASE n = 1 -> b[1]
                    [] n = 2 -> (b[1] - 192) * 64 + (b[2] - 128)
                    [] n = 3 -> (b[1] - 224) * 4096 + (b[2] - 128) * 64 + (b[3] - 128)
                    [] OTHER -> (b[1] - 240) * 262144 + (b[2] - 128) * 4096
                                + (b[3] - 128) * 64 + (b[4] - 128)
             rest == Utf8Decode(SubSeq(b, n + 1, Len(b)))
         IN  IF ~cont \/ Utf8Char(c) # SubSeq(b, 1, n) \/ rest = <<-1>> THEN <<-1>>
             ELSE <<c>> \o rest

\* OSCType.string(data, index)
OSCType_string(data, index) ==
    IF index # -1
    THEN LET r == StringRead(data, index)
         IN  IF ~r.ok THEN r
             ELSE IF \E k \in 1..Len(r.value) : r.value[k] > 127
                  THEN Raise("UnicodeDecodeError")
             ELSE Ret(PyStr(r.value), r.index)
    ELSE IF data.py # "str" THEN Raise("OSCBuildError")
    ELSE IF \E k \in 1..Len(data.s) : data.s[k] > 127 THEN Raise("OSCBuildError")
    ELSE StringWrite(data.s)

\* OSCType.utf8_string(data, index)
OSCType_utf8_string(data, index) ==
    IF index # -1
    THEN LET r == StringRead(data, index)
         IN  IF ~r.ok THEN r
             ELSE IF Utf8Decode(r.value) = <<-1>> THEN Raise("UnicodeDecodeError")
             ELSE Ret(PyStr(Utf8Decode(r.value)), r.index)
    ELSE IF data.py # "str" THEN Raise("OSCBuildError")
    ELSE IF \E k \in 1..Len(data.s) : Utf8Char(data.s[k]) = <<>>
         THEN Raise("OSCBuildError")
    ELSE StringWrite(Utf8Encode(data.s))

\* the read half of int, uint, int64: unpack w bytes at index
IntRead(data, index, w, signed, checked) ==
    IF checked /\ Len(PyFrom(data, index)) < w THEN Raise("OSCParseError")
    ELSE LET r == StructUnpackInt(PySlice(data, index, index + w), w, signed)
         IN  IF r.ok THEN Ret(r.value, index + w) ELSE Raise("OSCParseError")

\* the write half of int, uint, int64, float, double: struct.error becomes
\* OSCBuildError
PackOrBuildError(r) == IF r.err = "struct.error" THEN Raise("OSCBuildError") ELSE r

\* OSCType.int(data, index)
OSCType_int(data, index) ==
    IF index # -1 THEN IntRead(data, index, _INT_DGRAM_LEN, TRUE, TRUE)
    ELSE PackOrBuildError(StructPackInt(data, _INT_DGRAM_LEN, TRUE))

\* OSCType.uint(data, index)
OSCType_uint(data, index) ==
    IF index # -1 THEN IntRead(data, index, _UINT_DGRAM_LEN, FALSE, TRUE)
    ELSE PackOrBuildError(StructPackInt(data, _UINT_DGRAM_LEN, FALSE))

\* OSCType.int64(data, index)
OSCType_int64(data, index) ==
    IF index # -1 THEN IntRead(data, index, _INT64_DGRAM_LEN, TRUE, FALSE)
    ELSE PackOrBuildError(StructPackInt(data, _INT64_DGRAM_LEN, TRUE))

\* OSCType.double(data, index)
OSCType_double(data, index) ==
    IF index # -1
    THEN LET r == StructUnpackDouble(PySlice(data, index, index + _DOUBLE_DGRAM_LEN))
         IN  IF r.ok THEN Ret(r.value, index + _DOUBLE_DGRAM_LEN)
             ELSE Raise("OSCParseError")
    ELSE PackOrBuildError(StructPackDouble(data))

\* OSCType.float(data, index): a short datagram is padded with zeros first
OSCType_float(data, index) ==
    IF index # -1
    THEN LET have == Len(PyFrom(data, index))
             padded == IF have < _FLOAT_DGRAM_LEN
                       THEN data \o Zeros(_FLOAT_DGRAM_LEN - have) ELSE data
             r == StructUnpackFloat(PySlice(padded, index, index + _FLOAT_DGRAM_LEN))
         IN  IF r.ok THEN Ret(r.value, index + _FLOAT_DGRAM_LEN)
             ELSE Raise("OSCParseError")
    ELSE PackOrBuildError(StructPackFloat(data))

\* float(decimal.Decimal(str(num_secs) + '.' + str(fraction))), for
\* fraction >= 0
DecimalFloat(num_secs, fraction) ==
    LET f == MagToNat(fraction.mag)
        d == NumDigits(f)
    IN  MkFloat(num_secs.neg, num_secs.mag, f, d, d)

\* a timetag without the special case of IMMEDIATELY
OSCType_timetag_plain(data, index) ==
    IF index # -1
    THEN LET num_secs == OSCType_int(data, index)
             fraction == OSCType_int(data, num_secs.index)
         IN  IF Len(PyFrom(data, index)) < _TIMETAG_DGRAM_LEN
             THEN Raise("OSCParseError")
             ELSE IF ~num_secs.ok THEN num_secs
             ELSE IF ~fraction.ok THEN fraction
             ELSE IF fraction.value.neg THEN Raise("decimal.InvalidOperation")
             ELSE Ret(ntp_to_time(DecimalFloat(num_secs.value, fraction.value)),
                      fraction.index)
    ELSE LET r == time_to_ntp(data)
         IN  IF r.err = "NTPError" THEN Raise("OSCBuildError") ELSE r

\* OSCType.timetag(data, index)
OSCType_timetag(data, index) ==
    IF index # -1
    THEN LET num_secs == OSCType_int(data, index)
             fraction == OSCType_int(data, num_secs.index)
         IN  IF PySlice(data, index, index + _TIMETAG_DGRAM_LEN) = NTP_IMMEDIATELY
             THEN Ret(IMMEDIATELY, index + _TIMETAG_DGRAM_LEN)
             ELSE IF Len(PyFrom(data, index)) < _TIMETAG_DGRAM_LEN
                  THEN Raise("OSCParseError")
             ELSE IF ~num_secs.ok THEN num_secs
             ELSE IF ~fraction.ok THEN fraction
             ELSE IF fraction.value.neg THEN Raise("decimal.InvalidOperation")
             ELSE Ret(ntp_to_time(DecimalFloat(num_secs.value, fraction.value)),
                      fraction.index)
    ELSE IF PyEq(data, IMMEDIATELY) THEN Ret(NTP_IMMEDIATELY, -1)
    ELSE LET r == time_to_ntp(data)
         IN  IF r.err = "NTPError" THEN Raise("OSCBuildError") ELSE r

\* the fields of an OSCColor or OSCMidi as struct sees them
Fields(v) ==
    IF v.py = "OSCColor" THEN <<v.r, v.g, v.b, v.a>>
    ELSE <<v.port, v.status, v.data1, v.data2>>

\* OSCType.color(data, index)
OSCType_color(data, index) ==
    IF index # -1
    THEN LET d == PySlice(data, index, index + _COLOR_DGRAM_LEN)
         IN  IF Len(d) # 4 THEN Raise("OSCParseError")
             ELSE Ret(PyOSCColor(d[1], d[2], d[3], d[4]), index + _COLOR_DGRAM_LEN)
    ELSE IF data.py \notin {"OSCColor", "OSCMidi"} THEN Raise("AttributeError")
    ELSE PackOrBuildError(StructPackBBBB(Fields(data)))

\* OSCType.midi(data, index)
OSCType_midi(data, index) ==
    IF index # -1
    THEN LET d == PySlice(data, index, index + _MIDI_DGRAM_LEN)
         IN  IF Len(d) # 4 THEN Raise("OSCParseError")
             ELSE Ret(PyOSCMidi(d[1], d[2], d[3], d[4]), index + _MIDI_DGRAM_LEN)
    ELSE IF data.py \notin {"OSCColor", "OSCMidi"} THEN Raise("AttributeError")
    ELSE PackOrBuildError(StructPackBBBB(Fields(data)))

\* OSCType.char(data, index): data[index] of a bytes object is an int, and an
\* int has no decode
OSCType_char(data, index) ==
    IF index # -1
    THEN IF ~PyHas(data, index) THEN Raise("IndexError")
         ELSE Raise("AttributeError")
    ELSE IF data.py # "str" THEN Raise("AttributeError")
    ELSE IF \E k \in 1..Len(data.s) : data.s[k] > 127 THEN Raise("OSCBuildError")
    ELSE IF Len(data.s) # 1 THEN Raise("OSCBuildError")
    ELSE Ret(data.s \o Zeros(3), -1)

\* OSCType.blob(data, index)
OSCType_blob(data, index) ==
    IF index # -1
    THEN LET r == OSCType_int(data, index)
             size == IF r.value.neg THEN -MagToNat(r.value.mag)
                     ELSE MagToNat(r.value.mag)
             offset == r.index
             total_size == size + ((-size) % _BLOB_DGRAM_PAD)
             end_index == offset + size
         IN  IF ~r.ok THEN r
             ELSE IF end_index - index > Len(PyFrom(data, index))
                  THEN Raise("OSCParseError")
             ELSE Ret(PyBytes(PySlice(data, offset, offset + size)),
                      offset + total_size)
    ELSE IF ~PyTruthy(data) THEN Raise("OSCBuildError")
    ELSE IF data.py # "bytes" THEN Raise("TypeError")
    ELSE LET n == OSCType_int(IntV(Len(data.b)), -1)
             dgram == n.value \o data.b
         IN  Ret(dgram \o Zeros((-Len(dgram)) % _BLOB_DGRAM_PAD), -1)

\* OSCType.type(_type, data, index): the dispatch through TYPES_MAP
OSCType_type(_type, data, index) ==
    CASE _type = <<TYPE_INT>> -> OSCType_int(data, index)
      [] _type = <<TYPE_UINT>> -> OSCType_uint(data, index)
      [] _type = <<TYPE_CHAR>> -> OSCType_char(data, index)
      [] _type = <<TYPE_BLOB>> -> OSCType_blob(data, index)
      [] _type = <<TYPE_MIDI>> -> OSCType_midi(data, index)
      [] _type = <<TYPE_FLOAT>> -> OSCType_float(data, index)
      [] _type = <<TYPE_COLOR>> -> OSCType_color(data, index)
      [] _type = <<TYPE_STRING>> -> OSCType_string(data, index)
      [] _type = <<TYPE_TIMETAG>> -> OSCType_timetag(data, index)
      [] _type = <<TYPE_DOUBLE>> -> OSCType_double(data, index)
      [] _type = <<TYPE_INT64>> -> OSCType_int64(data, index)
      [] _type = <<TYPE_UTF8_STRING>> -> OSCType_utf8_string(data, index)

(***************************************************************************)
(* OSCMessage.  A message object is a record [py, address, args, dgram];   *)
(* args is a sequence of <<tag, value>> pairs, a tag a one-character str.  *)
(***************************************************************************)
\* OSCMessage(): the fields __init__ sets before the address is checked
NewMessage ==
    [py |-> "OSCMessage", address |-> <<47>>, args |-> <<>>, dgram |-> <<>>]

\* the characters of the class [a-zA-Z0-9/_\-?*\[\]]
AddressChars ==
    (97..122) \cup (65..90) \cup (48..57) \cup {47, 95, 45, 63, 42, 91, 93}

\* is_valid_address(address): '/' or a match of the pattern at the start
OSCMessage_is_valid_address(address) ==
    \/ address = <<47>>
    \/ Len(address) >= 2 /\ address[1] = 47 /\ address[2] \in AddressChars

\* the address setter
OSCMessage_address(msg, value) ==
    IF ~StartsWith(value, <<47>>) THEN Raise("ValueError")
    ELSE IF ~OSCMessage_is_valid_address(value) THEN Raise("ValueError")
    ELSE Ret([msg EXCEPT !.address = value], -1)

\* an append that takes any explicit tag
OSCMessage_append_any_tag(msg, value, _type) ==
    LET t == IF _type = <<>> THEN OSCType_tag(value) ELSE _type
    IN  Ret([msg EXCEPT !.args = Append(@, <<t, value>>)], -1)

\* append(value, _type); _type is <<>> for None
OSCMessage_append(msg, value, _type) ==
    IF _type # <<>> /\ ~OSCType_is_supported(_type) THEN Raise("ValueError")
    ELSE LET t == IF _type = <<>> THEN OSCType_tag(value) ELSE _type
         IN  Ret([msg EXCEPT !.args = Append(@, <<t, value>>)], -1)

\* index(value, start, end): the index of the last argument from start to
\* end whose value equals value, or -1; end is 0 for False
OSCMessage_index(msg, value, start, end) ==
    LET stop == IF end = 0 THEN Len(msg.args) ELSE end
        found == {index \in 0..(Len(msg.args) - 1) :
                    /\ index >= start
                    /\ index < stop
                    /\ PyEq(value, msg.args[index + 1][2])}
    IN  IF found = {} THEN -1
        ELSE CHOOSE index \in found : \A other \in found : other <= index

\* del self._args[index]
DelArg(args, index) ==
    SubSeq(args, 1, index) \o SubSeq(args, index + 2, Len(args))

\* remove(value) after index(value)
Removed(msg, index) ==
    IF index > 0 /\ index < Len(msg.args)
    THEN Ret([msg EXCEPT !.args = DelArg(@, index)], -1)
    ELSE Raise("ValueError")

\* remove(value)
OSCMessage_remove(msg, value) ==
    Removed(msg, OSCMessage_index(msg, value, 0, 0))

\* OSCMessage(address, args): the constructor
RECURSIVE AddAll(_, _)
AddAll(msg, values) ==
    IF values = <<>> THEN msg
    ELSE AddAll(OSCMessage_append(msg, Head(values), <<>>).value, Tail(values))

OSCMessage_init(address, values) ==
    LET r == OSCMessage_address(NewMessage, address)
    IN  IF ~r.ok THEN r ELSE Ret(AddAll(r.value, values), -1)

\* "".join([arg[0] for arg in self._args])
RECURSIVE JoinTags(_)
JoinTags(args) ==
    IF args = <<>> THEN <<>> ELSE Head(args)[1] \o JoinTags(Tail(args))

\* the loop of build over the arguments: the datagram, or the exception.
\* BuildArg is one pass of the loop, r what OSCType.type returns for it.
RECURSIVE BuildArgs(_, _)
BuildArg(args, dgram, r) ==
    IF OSCType_has_datagram(Head(args)[1])
    THEN IF r.ok THEN BuildArgs(Tail(args), dgram \o r.value) ELSE Raise(r.err)
    ELSE IF OSCType_is_supported(Head(args)[1]) THEN BuildArgs(Tail(args), dgram)
    ELSE Raise("OSCBuildError")

BuildArgs(args, dgram) ==
    IF args = <<>> THEN Ret(dgram, -1)
    ELSE BuildArg(args, dgram, OSCType_type(Head(args)[1], Head(args)[2], -1))

\* the end of build: self._dgram = dgram, return self
Built(msg, r) == IF ~r.ok THEN r ELSE Ret([msg EXCEPT !.dgram = r.value], -1)

\* a build that writes the type tag string of a message without arguments
BuildHeaderAlwaysTagged(msg, address, types) ==
    IF ~address.ok THEN Raise("OSCBuildError")
    ELSE IF ~types.ok THEN Raise("OSCBuildError")
    ELSE Built(msg, BuildArgs(msg.args, address.value \o types.value))

\* build() after the address and the type tag string are written
BuildHeader(msg, address, types) ==
    IF ~address.ok THEN Raise("OSCBuildError")
    ELSE IF msg.args = <<>> THEN Built(msg, address)
    ELSE IF ~types.ok THEN Raise("OSCBuildError")
    ELSE Built(msg, BuildArgs(msg.args, address.value \o types.value))

\* build(): the message with its datagram set, or the exception
OSCMessage_build(msg) ==
    IF msg.address = <<>> THEN Raise("OSCBuildError")
    ELSE BuildHeader(msg, OSCType_string(PyStr(msg.address), -1),
                     OSCType_string(PyStr(<<44>> \o JoinTags(msg.args)), -1))

\* the loop of _parse over the type tags.  ParseArg is one pass of the loop,
\* r what OSCType.type returns for it.  At index -1 the codec function takes
\* its write branch and returns bytes, which do not unpack into
\* (value, index).
RECURSIVE ParseArgs(_, _, _, _)
\* a pass of the loop that reads four bytes of payload for a tag it does
\* not know
ParseArgEatingUnknown(dgram, typetag, index, args, r) ==
    LET _type == <<Head(typetag)>>
    IN  IF OSCType_has_datagram(_type)
        THEN IF ~r.ok THEN Raise(r.err)
             ELSE ParseArgs(dgram, Tail(typetag), r.index,
                            Append(args, <<_type, r.value>>))
        ELSE IF _type = <<TYPE_TRUE>>
        THEN ParseArgs(dgram, Tail(typetag), index,
                       Append(args, <<_type, PyBool(TRUE)>>))
        ELSE ParseArgs(dgram, Tail(typetag), index + _INT_DGRAM_LEN, args)

ParseArg(dgram, typetag, index, args, r) ==
    LET _type == <<Head(typetag)>>
    IN  IF OSCType_has_datagram(_type)
        THEN IF ~r.ok THEN Raise(r.err)
             ELSE IF index = -1 THEN Raise("ValueError")
             ELSE ParseArgs(dgram, Tail(typetag), r.index,
                            Append(args, <<_type, r.value>>))
        ELSE IF _type = <<TYPE_TRUE>>
        THEN ParseArgs(dgram, Tail(typetag), index,
                       Append(args, <<_type, PyBool(TRUE)>>))
        ELSE IF _type = <<TYPE_FALSE>>
        THEN ParseArgs(dgram, Tail(typetag), index,
                       Append(args, <<_type, PyBool(FALSE)>>))
        ELSE IF _type = <<TYPE_NULL>>
        THEN ParseArgs(dgram, Tail(typetag), index, Append(args, <<_type, PyNone>>))
        ELSE IF _type = <<TYPE_IMPULSE>>
        THEN ParseArgs(dgram, Tail(typetag), index,
                       Append(args, <<_type, PyOSCImpulse>>))
        ELSE ParseArgs(dgram, Tail(typetag), index, args)

ParseArgs(dgram, typetag, index, args) ==
    IF typetag = <<>> THEN Ret(args, index)
    ELSE ParseArg(dgram, typetag, index, args,
                  OSCType_type(<<Head(typetag)>>,
                               IF index = -1 THEN PyBytes(dgram) ELSE dgram,
                               index))

\* the end of _parse: the message object filled
Parsed(dgram, address, r) ==
    IF ~r.ok THEN Raise(r.err)
    ELSE Ret([py |-> "OSCMessage", address |-> address.value.s,
              args |-> r.value, dgram |-> dgram], -1)

\* typetag[1:] if typetag.startswith(',')
StripComma(typetag) ==
    IF StartsWith(typetag, <<44>>) THEN Tail(typetag) ELSE typetag

\* _parse after the type tag string is read
ParseParams(dgram, address, typetag) ==
    IF ~typetag.ok THEN Raise(typetag.err)
    ELSE Parsed(dgram, address,
                ParseArgs(dgram, StripComma(typetag.value.s), typetag.index, <<>>))

\* _parse after the address is read
ParseHeader(dgram, address) ==
    IF ~address.ok THEN Raise(address.err)
    ELSE IF PyFrom(dgram, address.index) = <<>>
    THEN Parsed(dgram, address, Ret(<<>>, address.index))
    ELSE ParseParams(dgram, address, OSCType_string(dgram, address.index))

\* OSCMessage.parse(dgram): OSCMessage() and _parse(dgram)
OSCMessage_parse(dgram) == ParseHeader(dgram, OSCType_string(dgram, 0))

\* OSCMessage.is_valid(dgram)
OSCMessage_is_valid(dgram) == StartsWith(dgram, <<47>>)

(***************************************************************************)
(* OSCBundle.  A bundle object is a record [py, timestamp, contents,       *)
(* dgram].  An element of contents is a message or bundle record; in the   *)
(* bundle under construction a message element is held by reference, as    *)
(* [py |-> "ref", id |-> k] for the message object k of the heap.          *)
(***************************************************************************)
_BUNDLE_PREFIX == <<35, 98, 117, 110, 100, 108, 101, 0>>

\* OSCBundle(timestamp)
NewBundle(timestamp) ==
    [py |-> "OSCBundle", timestamp |-> timestamp, contents |-> <<>>,
     dgram |-> <<>>]

\* OSCBundle.is_valid(dgram)
OSCBundle_is_valid(dgram) == StartsWith(dgram, _BUNDLE_PREFIX)

\* the object an element of contents stands for
Deref(heap, c) == IF c.py = "ref" THEN heap[c.id] ELSE c

\* the int a size or offset read from a datagram stands for
ToInt(v) == IF v.neg THEN -MagToNat(v.mag) ELSE MagToNat(v.mag)

RECURSIVE OSCBundle_parse(_)
RECURSIVE OSCBundle__parse_contents(_, _, _, _)

\* one pass of the loop of _parse_contents after the element is parsed
ParsedContent(dgram, next, contents, seen, sub) ==
    IF ~sub.ok
    THEN Raise(IF sub.err = "IndexError" THEN "OSCParseError" ELSE sub.err)
    ELSE OSCBundle__parse_contents(dgram, next, Append(contents, sub.value), seen)

\* one pass of the loop of _parse_contents after the element is sliced
ParseContent(dgram, next, contents, seen, content_dgram) ==
    IF OSCBundle_is_valid(content_dgram)
    THEN ParsedContent(dgram, next, contents, seen, OSCBundle_parse(content_dgram))
    ELSE IF OSCMessage_is_valid(content_dgram)
    THEN ParsedContent(dgram, next, contents, seen, OSCMessage_parse(content_dgram))
    ELSE OSCBundle__parse_contents(dgram, next, contents, seen)

\* one pass of the loop of _parse_contents after the size is read
SizedContent(dgram, contents, seen, size) ==
    IF ~size.ok THEN Raise("OSCParseError")
    ELSE ParseContent(dgram, size.index + ToInt(size.value), contents, seen,
                      PySlice(dgram, size.index, size.index + ToInt(size.value)))

\* the outcome of a call that does not return
NeverReturns == Raise("never returns")

\* _parse_contents(index): the loop, contents the elements read so far and
\* seen the values index had at the head of the loop.  What a pass does
\* depends on the datagram and on index only, so a loop that comes to a
\* value of index a second time (after a negative size) does not end.
OSCBundle__parse_contents(dgram, index, contents, seen) ==
    IF PyFrom(dgram, index) = <<>> THEN Ret(contents, index)
    ELSE IF index \in seen THEN NeverReturns
    ELSE SizedContent(dgram, contents, seen \cup {index},
                      OSCType_int(dgram, index))

\* the end of _parse: the bundle object filled
ParsedBundle(dgram, timestamp, contents) ==
    IF ~contents.ok THEN Raise(contents.err)
    ELSE Ret([py |-> "OSCBundle", timestamp |-> timestamp.value,
              contents |-> contents.value, dgram |-> dgram], -1)

\* _parse after the time tag is read
DatedBundle(dgram, timestamp) ==
    IF ~timestamp.ok THEN Raise(timestamp.err)
    ELSE ParsedBundle(dgram, timestamp,
                      OSCBundle__parse_contents(dgram, timestamp.index, <<>>, {}))

\* OSCBundle.parse(dgram): OSCBundle() and _parse(dgram)
OSCBundle_parse(dgram) ==
    DatedBundle(dgram, OSCType_timetag(dgram, Len(_BUNDLE_PREFIX)))

\* the loop of build over the contents: size and cached datagram of each
RECURSIVE BuildContents(_, _, _)
BuildContent(heap, contents, dgram, content) ==
    IF content.py \notin {"OSCMessage", "OSCBundle"} THEN Raise("OSCBuildError")
    ELSE BuildContents(heap, Tail(contents),
                       dgram \o OSCType_int(IntV(Len(content.dgram)), -1).value
                             \o content.dgram)

BuildContents(heap, contents, dgram) ==
    IF contents = <<>> THEN Ret(dgram, -1)
    ELSE BuildContent(heap, contents, dgram, Deref(heap, Head(contents)))

\* the end of build: return OSCBundle.parse(dgram)
BuiltBundle(r) == IF ~r.ok THEN r ELSE OSCBundle_parse(r.value)

\* build after the time tag is written
BuildDated(heap, self, timetag) ==
    IF ~timetag.ok THEN timetag
    ELSE BuiltBundle(BuildContents(heap, self.contents,
                                   _BUNDLE_PREFIX \o timetag.value))

\* build(): the bundle parsed back from the datagram built; the bundle built
\* from keeps its own datagram
OSCBundle_build(heap, self) ==
    BuildDated(heap, self, OSCType_timetag(self.timestamp, -1))

\* the "length" property
OSCBundle_length(self) == Len(self.contents)

(***************************************************************************)
(* OSCPacket.                                                              *)
(***************************************************************************)
\* OSCPacket(dgram), constructed when the clock reads time
NewPacket(dgram, time, r) ==
    IF ~r.ok THEN r
    ELSE Ret([py |-> "OSCPacket", time |-> time, dgram |-> dgram,
              message |-> r.value], -1)

\* a constructor that takes every datagram without the "/" for an error
OSCPacketOfMessages(dgram, time) ==
    IF OSCMessage_is_valid(dgram)
    THEN NewPacket(dgram, time, OSCMessage_parse(dgram))
    ELSE Raise("OSCParseError")

OSCPacket(dgram, time) ==
    IF OSCBundle_is_valid(dgram) THEN NewPacket(dgram, time, OSCBundle_parse(dgram))
    ELSE IF OSCMessage_is_valid(dgram)
    THEN NewPacket(dgram, time, OSCMessage_parse(dgram))
    ELSE Raise("OSCParseError")

\* packet.message.length: only OSCBundle has the property
OSCPacket_message_length(packet) ==
    IF packet.message.py = "OSCBundle"
    THEN Ret(IntV(OSCBundle_length(packet.message)), -1)
    ELSE Raise("AttributeError")

(***************************************************************************)
(* The calls a program makes on messages and bundles.  Each action is one  *)
(* call; last records it.                                                  *)
(***************************************************************************)
\* the clock when the program starts
StartTime == 1700000000

clientVars == <<clients, socket, closed, sockets, sent>>
serverVars == <<queue, arrived, handled>>

MaxArgs == 2
MaxElems == 3
MsgIds == {1, 2}

\* a mutator returns None
Done(r) == IF r.ok THEN Ret(PyNone, -1) ELSE r

\* the addresses a program sets: "/", "/a" and "a"
Addresses == {<<47>>, <<47, 97>>, <<97>>}

\* the (value, _type) pairs a program appends; <<>> is _type=None
TaggedInputs ==
    { <<IntV(1), <<>>>>,
      <<PyInt(TRUE, <<2>>), <<TYPE_INT64>>>>,
      <<PyFloat(FALSE, <<>>, 1, 1, 0), <<>>>>,
      <<PyStr(<<97, 98>>), <<>>>>,
      <<PyBytes(<<1, 2, 3>>), <<>>>>,
      <<PyBool(TRUE), <<>>>>,
      <<PyStr(<<120>>), <<TYPE_CHAR>>>>,
      <<PyFloat(FALSE, NatToMag(1700000000), 1, 2, 0), <<TYPE_TIMETAG>>>>,
      <<IntV(1), <<88>>>> }

\* message.address = value
MsgAddress(k, value) ==
    LET set(r) ==
            /\ msgs' = IF r.ok THEN [msgs EXCEPT ![k] = r.value] ELSE msgs
            /\ last' = [op |-> "OSCMessage.address", value |-> value,
                        before |-> msgs[k].address, call |-> Done(r)]
    IN  /\ set(OSCMessage_address(msgs[k], value))
        /\ UNCHANGED <<bundle, now, clientVars, serverVars>>

\* message = OSCMessage(address)
MsgInit(k, address) ==
    LET made(r) ==
            /\ msgs' = IF r.ok THEN [msgs EXCEPT ![k] = r.value] ELSE msgs
            /\ last' = [op |-> "OSCMessage", value |-> address,
                        before |-> msgs[k].address, call |-> Done(r)]
    IN  /\ made(OSCMessage_init(address, <<>>))
        /\ UNCHANGED <<bundle, now, clientVars, serverVars>>

\* message = OSCMessage.parse(dgram)
MsgFromWire(k, dgram) ==
    LET made(r) ==
            /\ msgs' = IF r.ok THEN [msgs EXCEPT ![k] = r.value] ELSE msgs
            /\ last' = [op |-> "OSCMessage.parse", dgram |-> dgram, call |-> r]
    IN  /\ made(OSCMessage_parse(dgram))
        /\ UNCHANGED <<bundle, now, clientVars, serverVars>>

\* message.append(value, _type)
MsgAppend(k, value, _type) ==
    LET appended(r) ==
            /\ msgs' = IF r.ok THEN [msgs EXCEPT ![k] = r.value] ELSE msgs
            /\ last' = [op |-> "OSCMessage.append", value |-> value,
                        type |-> _type, before |-> msgs[k].args,
                        call |-> Done(r)]
    IN  /\ Len(msgs[k].args) < MaxArgs
        /\ appended(OSCMessage_append(msgs[k], value, _type))
        /\ UNCHANGED <<bundle, now, clientVars, serverVars>>

\* message.remove(value)
MsgRemove(k, value) ==
    LET removed(r) ==
            /\ msgs' = IF r.ok THEN [msgs EXCEPT ![k] = r.value] ELSE msgs
            /\ last' = [op |-> "OSCMessage.remove", value |-> value,
                        before |-> msgs[k].args, call |-> Done(r)]
    IN  /\ removed(OSCMessage_remove(msgs[k], value))
        /\ UNCHANGED <<bundle, now, clientVars, serverVars>>

\* message.build()
MsgBuild(k) ==
    LET built(r) ==
            /\ msgs' = IF r.ok THEN [msgs EXCEPT ![k] = r.value] ELSE msgs
            /\ last' = [op |-> "OSCMessage.build", call |-> r]
    IN  /\ built(OSCMessage_build(msgs[k]))
        /\ UNCHANGED <<bundle, now, clientVars, serverVars>>

\* the message datagram at hand: the one message k was built to
MessageWire(k) == IF msgs[k].dgram = <<>> THEN {} ELSE {msgs[k].dgram}

\* OSCMessage.parse(dgram)
MsgParse(dgram) ==
    /\ last' = [op |-> "OSCMessage.parse", dgram |-> dgram,
                call |-> OSCMessage_parse(dgram)]
    /\ UNCHANGED <<msgs, bundle, now, clientVars, serverVars>>

(***************************************************************************)
(* Datagrams as another program sends them.                                *)
(***************************************************************************)
\* a message datagram: the address "/a", the type tags and their payloads
WirePayload(c) ==
    CASE c = TYPE_INT -> <<0, 0, 0, 5>>
      [] c = TYPE_STRING -> <<97, 98, 0, 0>>
      [] OTHER -> <<>>

RECURSIVE WirePayloads(_)
WirePayloads(tags) ==
    IF tags = <<>> THEN <<>> ELSE WirePayload(Head(tags)) \o WirePayloads(Tail(tags))

WireMessage(tags) ==
    <<47, 97, 0, 0>> \o StringWrite(<<44>> \o tags).value \o WirePayloads(tags)

\* a bundle datagram: the time tag and the elements, each after its size
RECURSIVE WireElements(_)
WireElements(elements) ==
    IF elements = <<>> THEN <<>>
    ELSE PadTo(NatToMag(Len(Head(elements))), 4) \o Head(elements)
         \o WireElements(Tail(elements))

WireBundle(timetag, elements) ==
    _BUNDLE_PREFIX \o timetag \o WireElements(elements)

\* a bundle whose one element is a message of nine bytes
UnalignedBundle ==
    WireBundle(NTP_IMMEDIATELY, <<<<47, 97, 0, 0, 44, 0, 0, 0, 90>>>>)

\* the bundle {msg, msg, bundle{msg, bundle{msg}}}
NestedBundle ==
    LET m == WireMessage(<<TYPE_INT>>)
        inner == WireBundle(NTP_IMMEDIATELY, <<m>>)
    IN  WireBundle(NTP_IMMEDIATELY,
                   <<m, m, WireBundle(NTP_IMMEDIATELY, <<m, inner>>)>>)

\* the type tag strings of the message datagrams received
MaxTags == 3
TagChoices == {TYPE_INT, TYPE_STRING, TYPE_TRUE, 120, 44}
TagStrings == UNION {[1..n -> TagChoices] : n \in 0..MaxTags}

(***************************************************************************)
(* The calls a program makes on a bundle.                                  *)
(***************************************************************************)
\* IMMEDIATELY and a system time, 1700000000.25
Timestamps == {IMMEDIATELY, PyFloat(FALSE, NatToMag(1700000000), 1, 2, 0)}

\* bundle = OSCBundle(timestamp)
BundleNew(timestamp) ==
    /\ bundle' = NewBundle(timestamp)
    /\ last' = [op |-> "OSCBundle", call |-> Ret(PyNone, -1)]
    /\ UNCHANGED <<msgs, now, clientVars, serverVars>>

\* an append that keeps a copy of the message as it is built
BundleAppendMessageCopy(k) ==
    LET appended(r) ==
            /\ msgs' = IF r.ok THEN [msgs EXCEPT ![k] = r.value] ELSE msgs
            /\ bundle' = IF r.ok
                         THEN [bundle EXCEPT !.contents = Append(@, r.value)]
                         ELSE bundle
            /\ last' = [op |-> "OSCBundle.append", content |-> msgs[k],
                        before |-> bundle.contents, call |-> Done(r)]
    IN  /\ Len(bundle.contents) < MaxElems
        /\ appended(OSCMessage_build(msgs[k]))
        /\ UNCHANGED <<now, clientVars, serverVars>>

\* bundle.append(msgs[k]): build() sets the datagram of the message and
\* returns the message itself
BundleAppendMessage(k) ==
    LET appended(r) ==
            /\ msgs' = IF r.ok THEN [msgs EXCEPT ![k] = r.value] ELSE msgs
            /\ bundle' = IF r.ok
                         THEN [bundle EXCEPT
                                 !.contents = Append(@, [py |-> "ref", id |-> k])]
                         ELSE bundle
            /\ last' = [op |-> "OSCBundle.append", content |-> msgs[k],
                        before |-> bundle.contents, call |-> Done(r)]
    IN  /\ Len(bundle.contents) < MaxElems
        /\ appended(OSCMessage_build(msgs[k]))
        /\ UNCHANGED <<now, clientVars, serverVars>>

\* bundle.append(content) for a bundle: build() returns a new bundle, parsed
\* from the datagram built
BundleAppendBundle(content) ==
    LET appended(r) ==
            /\ bundle' = IF r.ok THEN [bundle EXCEPT !.contents = Append(@, r.value)]
                         ELSE bundle
            /\ last' = [op |-> "OSCBundle.append", content |-> content,
                        before |-> bundle.contents, call |-> Done(r)]
    IN  /\ Len(bundle.contents) < MaxElems
        /\ appended(OSCBundle_build(msgs, content))
        /\ UNCHANGED <<msgs, now, clientVars, serverVars>>

\* an append that takes whatever it is given
OSCBundle_append_unchecked(self, content, element) ==
    Ret([self EXCEPT !.contents = Append(@, element)], -1)

\* append(content), element what content.build() returns
OSCBundle_append(self, content, element) ==
    IF content.py = "OSCMessage" \/ content.py = "OSCBundle"
    THEN Ret([self EXCEPT !.contents = Append(@, element)], -1)
    ELSE Raise("OSCBuildError")

\* bundle[key] = value: no value is an OSCBundle and an OSCMessage
OSCBundle_setitem(self, key, value) ==
    IF key >= Len(self.contents) THEN Raise("IndexError")
    ELSE IF ~(value.py = "OSCBundle") \/ ~(value.py = "OSCMessage")
    THEN Raise("TypeError")
    ELSE Ret([self EXCEPT !.contents[key + 1] = value], -1)

\* del bundle[key]
OSCBundle_delitem(self, key) ==
    IF key >= Len(self.contents) THEN Raise("IndexError")
    ELSE IF key < -Len(self.contents) THEN Raise("IndexError")
    ELSE Ret([self EXCEPT !.contents =
                 DelArg(@, IF key < 0 THEN Len(@) + key ELSE key)], -1)

\* a call that changes the bundle or raises
BundleCall(op, key, content, r) ==
    /\ bundle' = IF r.ok THEN r.value ELSE bundle
    /\ last' = [op |-> op, key |-> key, content |-> content,
                before |-> bundle.contents, call |-> Done(r)]
    /\ UNCHANGED <<msgs, now, clientVars, serverVars>>

\* bundle.append(content) for a content that is no message and no bundle
BundleAppendOther(content) ==
    /\ Len(bundle.contents) < MaxElems
    /\ BundleCall("OSCBundle.append", Len(bundle.contents), content,
                  OSCBundle_append(bundle, content, content))

\* bundle[key] = value
BundleSetItem(key, value) ==
    BundleCall("OSCBundle.__setitem__", key, value,
               OSCBundle_setitem(bundle, key, value))

\* del bundle[key]
BundleDelItem(key) ==
    BundleCall("OSCBundle.__delitem__", key, PyNone,
               OSCBundle_delitem(bundle, key))

\* the bundles a program appends: a bundle it parsed
BundlesAtHand(parsed) == IF parsed.ok THEN {parsed.value} ELSE {}

\* bundle.build()
BundleBuild ==
    /\ last' = [op |-> "OSCBundle.build", call |-> OSCBundle_build(msgs, bundle)]
    /\ UNCHANGED <<msgs, bundle, now, clientVars, serverVars>>

\* the datagrams at hand: the one the last build made, the one the last
\* parse read, the one of a built message, and those received
BundleWire ==
    (IF last.op = "OSCBundle.build" /\ last.call.ok THEN {last.call.value.dgram}
     ELSE IF last.op \in {"OSCBundle.parse", "OSCPacket"} THEN {last.dgram}
     ELSE {})
    \cup {UnalignedBundle, NestedBundle}

\* OSCBundle.parse(dgram)
BundleParse(dgram) ==
    /\ last' = [op |-> "OSCBundle.parse", dgram |-> dgram,
                call |-> OSCBundle_parse(dgram)]
    /\ UNCHANGED <<msgs, bundle, now, clientVars, serverVars>>

\* OSCPacket(dgram).message.length
PacketLength(dgram) ==
    LET counted(packet) ==
            last' = [op |-> "OSCPacket", dgram |-> dgram, call |-> packet,
                     length |-> IF packet.ok
                                THEN OSCPacket_message_length(packet.value)
                                ELSE packet]
    IN  /\ counted(OSCPacket(dgram, now))
        /\ UNCHANGED <<msgs, bundle, now, clientVars, serverVars>>

(***************************************************************************)
(* OSCClient.  A socket object is the number of times it was closed; an    *)
(* address is a pair of Python values.                                     *)
(***************************************************************************)
MaxClients == 2
MaxSockets == 2

\* socket.socket(AF_INET, SOCK_DGRAM)
NewSocket == [closes |-> 0]

\* add(address, port)
OSCClient_add(address, port) ==
    IF address.py # "str" THEN Raise("ValueError")
    ELSE IF port.py \notin {"int", "bool"} \/ ~PyTruthy(port) \/ StructInt(port).neg
    THEN Raise("ValueError")
    ELSE Ret(Append(clients, <<address, port>>), -1)

\* remove(address, port): the list without the first client that matches
RECURSIVE OSCClient_remove(_, _, _)
OSCClient_remove(list, address, port) ==
    IF list = <<>> THEN <<>>
    ELSE IF PyEq(Head(list)[1], address) /\ PyEq(Head(list)[2], port)
    THEN Tail(list)
    ELSE <<Head(list)>> \o OSCClient_remove(Tail(list), address, port)

\* socket.sendto(dgram, address) on socket object id: the call as made;
\* on a closed socket it raises OSError
Sendto(table, id, dgram, address) ==
    [socket |-> id, open |-> table[id].closes = 0, dgram |-> dgram,
     address |-> address]

\* the loop of send: the sendto calls made, up to the first that raises
RECURSIVE SendAll(_, _, _, _)
\* a loop that walks the clients from the last to the first
SendAllReversed(table, id, dgram, list) ==
    IF list = <<>> THEN <<>>
    ELSE SendAll(table, id, dgram, Tail(list))
         \o <<Sendto(table, id, dgram, Head(list))>>

SendAll(table, id, dgram, list) ==
    IF list = <<>> THEN <<>>
    ELSE IF table[id].closes # 0 THEN <<Sendto(table, id, dgram, Head(list))>>
    ELSE <<Sendto(table, id, dgram, Head(list))>>
         \o SendAll(table, id, dgram, Tail(list))

\* message.build().dgram
BuildDgram(message) ==
    IF message.py = "OSCMessage" THEN OSCMessage_build(message)
    ELSE OSCBundle_build(msgs, message)

\* the socket objects once send has reopened the socket of a closed client
Reopened == IF closed THEN Append(sockets, NewSocket) ELSE sockets

\* a send that keeps the socket it has, closed or not
SendWithoutReopen(message, table, id, built) ==
    /\ UNCHANGED <<sockets, socket, closed>>
    /\ sent' = IF built.ok
               THEN SendAll(sockets, socket, built.value.dgram, clients)
               ELSE <<>>
    /\ last' = [op |-> "OSCClient.send", message |-> message,
                call |-> IF ~built.ok THEN built
                         ELSE IF clients # <<>> /\ sockets[socket].closes # 0
                         THEN Raise("OSError")
                         ELSE Ret(PyNone, -1)]

\* send(message) after the socket is reopened and the message is built
Send(message, table, id, built) ==
    /\ sockets' = table
    /\ socket' = id
    /\ closed' = FALSE
    /\ sent' = IF built.ok THEN SendAll(table, id, built.value.dgram, clients)
               ELSE <<>>
    /\ last' = [op |-> "OSCClient.send", message |-> message,
                call |-> IF ~built.ok THEN built
                         ELSE IF clients # <<>> /\ table[id].closes # 0
                         THEN Raise("OSError")
                         ELSE Ret(PyNone, -1)]

\* a send that reopens the socket before it looks at the message
OSCClient_send_reopening(message) ==
    IF message.py \notin {"OSCMessage", "OSCBundle"}
    THEN /\ last' = [op |-> "OSCClient.send", message |-> message,
                     call |-> Raise("ValueError")]
         /\ sent' = <<>>
         /\ sockets' = Reopened
         /\ socket' = IF closed THEN Len(sockets) + 1 ELSE socket
         /\ closed' = FALSE
    ELSE Send(message, Reopened, IF closed THEN Len(sockets) + 1 ELSE socket,
              BuildDgram(message))

\* send(message)
OSCClient_send(message) ==
    IF message.py \notin {"OSCMessage", "OSCBundle"}
    THEN /\ last' = [op |-> "OSCClient.send", message |-> message,
                     call |-> Raise("ValueError")]
         /\ sent' = <<>>
         /\ UNCHANGED <<socket, closed, sockets>>
    ELSE Send(message, Reopened, IF closed THEN Len(sockets) + 1 ELSE socket,
              BuildDgram(message))

\* a close that closes the socket whether or not the client is closed
OSCClient_close_unguarded ==
    /\ sockets' = [sockets EXCEPT ![socket].closes = @ + 1]
    /\ closed' = TRUE
    /\ last' = [op |-> "OSCClient.close", was_closed |-> closed,
                call |-> Ret(PyNone, -1)]
    /\ UNCHANGED <<socket, sent>>

\* close()
OSCClient_close ==
    /\ sockets' = IF ~closed THEN [sockets EXCEPT ![socket].closes = @ + 1]
                  ELSE sockets
    /\ closed' = TRUE
    /\ last' = [op |-> "OSCClient.close", was_closed |-> closed,
                call |-> Ret(PyNone, -1)]
    /\ UNCHANGED <<socket, sent>>

\* the (address, port) pairs a program adds and removes: ("a", 1),
\* ("b", 2), (1, 1) and ("a", 0)
Destinations ==
    { <<PyStr(<<97>>), IntV(1)>>, <<PyStr(<<98>>), IntV(2)>>,
      <<IntV(1), IntV(1)>>, <<PyStr(<<97>>), IntV(0)>> }

\* what a program sends: OSCMessage("/a", [1]), a message with an empty
\* blob, OSCBundle() and a string
SendInputs ==
    { OSCMessage_init(<<47, 97>>, <<IntV(1)>>).value,
      OSCMessage_init(<<47, 97>>, <<PyBytes(<<>>)>>).value,
      NewBundle(IMMEDIATELY),
      PyStr(<<47, 97>>) }

ClientAdd(address, port) ==
    LET added(r) ==
            /\ clients' = IF r.ok THEN r.value ELSE clients
            /\ last' = [op |-> "OSCClient.add", call |-> Done(r)]
    IN  /\ Len(clients) < MaxClients
        /\ added(OSCClient_add(address, port))
        /\ UNCHANGED <<msgs, bundle, now, socket, closed, sockets, sent, serverVars>>

ClientRemove(address, port) ==
    /\ clients' = OSCClient_remove(clients, address, port)
    /\ last' = [op |-> "OSCClient.remove", call |-> Ret(PyNone, -1)]
    /\ UNCHANGED <<msgs, bundle, now, socket, closed, sockets, sent, serverVars>>

\* clear()
ClientClear ==
    /\ clients' = <<>>
    /\ last' = [op |-> "OSCClient.clear", call |-> Ret(PyNone, -1)]
    /\ UNCHANGED <<msgs, bundle, now, socket, closed, sockets, sent, serverVars>>

ClientSend(message) ==
    /\ closed => Len(sockets) < MaxSockets
    /\ OSCClient_send(message)
    /\ UNCHANGED <<msgs, bundle, now, clients, serverVars>>

ClientClose ==
    /\ OSCClient_close
    /\ UNCHANGED <<msgs, bundle, now, clients, serverVars>>

(***************************************************************************)
(* OSCServer and _UDPRequestHandler.  The server takes one datagram at a   *)
(* time from its socket (socketserver.UDPServer): verify_request, then     *)
(* the request handler; an exception the handler lets out is reported by   *)
(* socketserver and the server goes on.                                    *)
(***************************************************************************)
MaxDatagrams == 2
MaxTicks == 2

\* verify_request(request, client_address)
OSCServer_verify_request(data) ==
    OSCBundle_is_valid(data) \/ OSCMessage_is_valid(data)

\* the messages of a packet root, those of its bundles included
RECURSIVE Leaves(_), LeavesOfAll(_)
LeavesOfAll(contents) ==
    IF contents = <<>> THEN <<>>
    ELSE Leaves(Head(contents)) \o LeavesOfAll(Tail(contents))

Leaves(message) ==
    IF message.py = "OSCMessage" THEN <<message>>
    ELSE LeavesOfAll(message.contents)

\* a handle() that calls the callback once for each message of the packet
HandlePerMessage(request, packet, time) ==
    LET wait == IF packet.ok /\ packet.value.time > time
                THEN packet.value.time - time ELSE 0
        calls == IF packet.ok THEN Leaves(packet.value.message) ELSE <<>>
    IN  /\ now' = IF packet = NeverReturns THEN now ELSE time + wait
        /\ handled' = handled \o
                          [i \in 1..Len(calls) |->
                             [address |-> request.client_address,
                              message |-> calls[i],
                              date |-> packet.value.time,
                              at |-> time + wait]]
        /\ queue' = IF packet = NeverReturns THEN queue ELSE Tail(queue)
        /\ last' = [op |-> "handle", request |-> request,
                    call |-> IF packet.ok THEN Ret(PyNone, -1)
                             ELSE IF packet.err = "OSCParseError"
                             THEN Ret(PyNone, -1)
                             ELSE packet]

\* handle() after the packet is made and the clock is read again: the sleep
\* and the callback.  The call of OSCServer.handle is logged with the time
\* it is made at.  The request leaves the queue when handle() is over: a
\* handle() that does not return keeps the server on its request.
Handle(request, packet, time) ==
    LET wait == IF packet.ok /\ packet.value.time > time
                THEN packet.value.time - time ELSE 0
    IN  /\ now' = IF packet = NeverReturns THEN now ELSE time + wait
        /\ handled' = IF packet.ok
                      THEN Append(handled,
                                  [address |-> request.client_address,
                                   message |-> packet.value.message,
                                   date |-> packet.value.time,
                                   at |-> time + wait])
                      ELSE handled
        /\ queue' = IF packet = NeverReturns THEN queue ELSE Tail(queue)
        /\ last' = [op |-> "handle", request |-> request,
                    call |-> IF packet.ok THEN Ret(PyNone, -1)
                             ELSE IF packet.err = "OSCParseError"
                             THEN Ret(PyNone, -1)
                             ELSE packet]

\* _UDPRequestHandler.handle() on a request; elapsed is the time the clock
\* moves between OSCPacket(data) and the reading of now
_UDPRequestHandler_handle(request, elapsed) ==
    Handle(request, OSCPacket(request.data, now), now + elapsed)

\* the server's socket receives a datagram
Arrive(data, client_address) ==
    /\ Len(arrived) < MaxDatagrams
    /\ queue' = Append(queue, [data |-> data, client_address |-> client_address])
    /\ arrived' = Append(arrived, [data |-> data, client_address |-> client_address])
    /\ last' = [op |-> "recvfrom", call |-> Ret(PyNone, -1)]
    /\ UNCHANGED <<msgs, bundle, now, clientVars, handled>>

\* the clock moves by a second
Tick ==
    /\ now < StartTime + MaxTicks
    /\ now' = now + 1
    /\ UNCHANGED <<msgs, bundle, last, clientVars, serverVars>>

\* the server takes the oldest datagram: verify_request and the handler
Serve(elapsed) ==
    /\ queue # <<>>
    /\ now + elapsed <= StartTime + MaxTicks
    /\ IF OSCServer_verify_request(Head(queue).data)
       THEN _UDPRequestHandler_handle(Head(queue), elapsed)
       ELSE /\ queue' = Tail(queue)
            /\ last' = [op |-> "verify_request", request |-> Head(queue),
                        call |-> Ret(PyBool(FALSE), -1)]
            /\ UNCHANGED <<now, handled>>
    /\ UNCHANGED <<msgs, bundle, clientVars, arrived>>

\* the seconds a sender puts its bundle into the future
FutureDelay == 5

\* the datagram build() makes of a message with the char "x"
CharWire ==
    OSCMessage_build(OSCMessage_append(NewMessage, PyStr(<<120>>),
                                       <<TYPE_CHAR>>).value).value.dgram

\* the datagrams sent to the server: the messages "/a" with the arguments
\* 5 and "ab" and with none, the message build() makes of the char "x", a
\* datagram cut short, one that is not OSC, and bundles of one message for
\* IMMEDIATELY and for FutureDelay seconds after the start
ServerWire ==
    { WireMessage(<<TYPE_INT, TYPE_STRING>>),
      WireMessage(<<>>),
      CharWire,
      <<47, 97, 0, 0, 44, 105, 0, 0>>,
      <<97, 98, 99, 0>>,
      WireBundle(NTP_IMMEDIATELY, <<WireMessage(<<TYPE_INT>>)>>),
      WireBundle(OSCType_timetag(PyFloat(FALSE, NatToMag(StartTime + FutureDelay),
                                         0, 0, 0), -1).value,
                 <<WireMessage(<<TYPE_INT>>)>>) }

\* datagrams with the prefix of a message or of a bundle that are not OSC:
\* a string argument and an address with a byte above 127, a time tag with
\* the fraction 0xFFFFFFFF, an element of the size -4 and one of a size
\* beyond the end of the datagram
MalformedWire ==
    { <<47, 97, 0, 0, 44, 115, 0, 0, 255, 0, 0, 0>>,
      <<47, 255, 0, 0>>,
      _BUNDLE_PREFIX \o <<0, 0, 0, 1, 255, 255, 255, 255>>,
      _BUNDLE_PREFIX \o NTP_IMMEDIATELY \o <<255, 255, 255, 252>>,
      _BUNDLE_PREFIX \o NTP_IMMEDIATELY \o <<0, 0, 0, 16, 47, 97, 0, 0>> }

\* the addresses the datagrams come from
Senders == {<<PyStr(<<97>>), IntV(1)>>, <<PyStr(<<98>>), IntV(2)>>}

vars == <<msgs, bundle, last, now, clientVars, serverVars>>

\* OSCClient()
InitClient ==
    /\ clients = <<>>
    /\ socket = 1
    /\ closed = FALSE
    /\ sockets = <<NewSocket>>
    /\ sent = <<>>

\* OSCServer(): nothing received yet
InitServer ==
    /\ queue = <<>>
    /\ arrived = <<>>
    /\ handled = <<>>

InitMessage ==
    /\ msgs = [k \in MsgIds |-> NewMessage]
    /\ bundle = NewBundle(IMMEDIATELY)
    /\ last = [op |-> "none", call |-> Ret(PyNone, -1)]
    /\ now = StartTime
    /\ InitClient
    /\ InitServer

NextMessage ==
    \/ \E value \in Addresses : MsgAddress(1, value)
    \/ \E input \in TaggedInputs : MsgAppend(1, input[1], input[2])
    \/ MsgBuild(1)
    \/ \E dgram \in MessageWire(1) : MsgParse(dgram)

SpecMessage == InitMessage /\ [][NextMessage]_vars

\* the parser on a message datagram received.  OSCMessage.parse is a static
\* method that keeps nothing between calls, so each behaviour parses one
\* datagram.
NextParse ==
    /\ last.op = "none"
    /\ \E tags \in TagStrings : MsgParse(WireMessage(tags))

SpecParse == InitMessage /\ [][NextParse]_vars

\* msgs[1] is OSCMessage("/a", [1]) and msgs[2] is OSCMessage("/b")
InitBundle ==
    /\ msgs = [k \in MsgIds |->
                 IF k = 1 THEN OSCMessage_init(<<47, 97>>, <<IntV(1)>>).value
                 ELSE OSCMessage_init(<<47, 98>>, <<>>).value]
    /\ bundle = NewBundle(IMMEDIATELY)
    /\ last = [op |-> "none", call |-> Ret(PyNone, -1)]
    /\ now = StartTime
    /\ InitClient
    /\ InitServer

NextBundle ==
    \/ \E timestamp \in Timestamps : BundleNew(timestamp)
    \/ \E k \in MsgIds : BundleAppendMessage(k)
    \/ \E content \in BundlesAtHand(OSCBundle_parse(UnalignedBundle)) :
          BundleAppendBundle(content)
    \/ \E k \in MsgIds : MsgBuild(k)
    \/ BundleBuild
    \/ \E dgram \in BundleWire : BundleParse(dgram)
    \/ \E dgram \in BundleWire \cup UNION {MessageWire(k) : k \in MsgIds} :
          PacketLength(dgram)

SpecBundle == InitBundle /\ [][NextBundle]_vars

NextClient ==
    \/ \E d \in Destinations : ClientAdd(d[1], d[2])
    \/ \E d \in Destinations : ClientRemove(d[1], d[2])
    \/ ClientClear
    \/ \E message \in SendInputs : ClientSend(message)
    \/ ClientClose

SpecClient == InitMessage /\ [][NextClient]_vars

NextServer ==
    \/ \E data \in ServerWire \cup MalformedWire, sender \in Senders :
            Arrive(data, sender)
    \/ Tick
    \/ \E elapsed \in {0, 1} : Serve(elapsed)

SpecServer == InitMessage /\ [][NextServer]_vars

\* the server on bundles of several elements: the bundle {msg, msg,
\* bundle{msg, bundle{msg}}}, a bundle of two messages, a message, a message
\* cut short in its string and bytes that are not OSC
DeliverWire ==
    { NestedBundle,
      WireBundle(NTP_IMMEDIATELY,
                 <<WireMessage(<<TYPE_INT>>), WireMessage(<<TYPE_STRING>>)>>),
      WireMessage(<<TYPE_INT>>),
      <<47, 97, 0, 0, 44, 115, 0, 0, 255, 0, 0, 0>>,
      <<97, 98, 99, 0>> }

NextDeliver ==
    \/ \E data \in DeliverWire, sender \in Senders : Arrive(data, sender)
    \/ Tick
    \/ \E elapsed \in {0, 1} : Serve(elapsed)

SpecDeliver == InitMessage /\ [][NextDeliver]_vars

(***************************************************************************)
(* The decoders on the bytes of a datagram: OSCType.type(_type, data,      *)
(* index) with an index that is not -1.                                    *)
(***************************************************************************)
\* the wire representation of one value of each type with a decoder: the
\* ints 5, the floats 0.5 and 1.0, "ab", the blob b"ab", the char "x", a
\* color, a MIDI message and a time tag
WireSamples ==
    { <<TYPE_INT, <<0, 0, 0, 5>>>>,
      <<TYPE_UINT, <<0, 0, 0, 5>>>>,
      <<TYPE_INT64, <<0, 0, 0, 0, 0, 0, 0, 5>>>>,
      <<TYPE_FLOAT, <<63, 0, 0, 0>>>>,
      <<TYPE_DOUBLE, <<63, 240, 0, 0, 0, 0, 0, 0>>>>,
      <<TYPE_STRING, <<97, 98, 0, 0>>>>,
      <<TYPE_BLOB, <<0, 0, 0, 2, 97, 98, 0, 0>>>>,
      <<TYPE_CHAR, <<120, 0, 0, 0>>>>,
      <<TYPE_COLOR, <<1, 2, 3, 4>>>>,
      <<TYPE_MIDI, <<1, 2, 3, 4>>>>,
      <<TYPE_TIMETAG, <<131, 170, 126, 133, 0, 0, 0, 25>>>> }

\* the bytes that stand before the value in a datagram
Leads == {<<>>, <<47, 97, 0, 0>>}

\* the reads of a value and of each of its truncations, at the end of a lead
WireReads ==
    UNION { { <<sample[1], lead \o SubSeq(sample[2], 1, n), Len(lead)>> :
                n \in 0..Len(sample[2]), lead \in Leads } :
            sample \in WireSamples }

\* OSCType.type(_type, data, index) on the bytes of a datagram
TypeRead(_type, data, index) ==
    /\ last' = [op |-> "OSCType.type", type |-> _type, data |-> data,
                index |-> index, call |-> OSCType_type(_type, data, index)]
    /\ UNCHANGED <<msgs, bundle, now, clientVars, serverVars>>

\* one read of one datagram: the decoders keep nothing between calls
NextRead ==
    /\ last.op = "none"
    /\ \E read \in WireReads : TypeRead(<<read[1]>>, read[2], read[3])

SpecRead == InitMessage /\ [][NextRead]_vars

(***************************************************************************)
(* OSCPacket on the datagrams received.                                    *)
(***************************************************************************)
\* the datagrams a packet is made of: messages with up to MaxTags tags,
\* bundles (empty, nested, with an element of 9 bytes, cut short), the empty
\* datagram, "/", and datagrams without the prefix of a message or bundle
PacketWire ==
    { WireMessage(tags) : tags \in TagStrings }
    \cup { WireBundle(NTP_IMMEDIATELY, <<>>), NestedBundle, UnalignedBundle,
           _BUNDLE_PREFIX, _BUNDLE_PREFIX \o <<0, 0>> }
    \cup { <<>>, <<47>>, <<97, 98, 99, 0>>, <<35>>, <<35, 98, 117, 110, 100, 108, 101>>,
           <<0, 47, 97, 0>> }

\* one packet of one datagram: OSCPacket keeps nothing between calls
NextPacket ==
    /\ last.op = "none"
    /\ \E dgram \in PacketWire : PacketLength(dgram)

SpecPacket == InitMessage /\ [][NextPacket]_vars

(***************************************************************************)
(* OSCBundle.parse on datagrams that were cut short.                       *)
(***************************************************************************)
\* the bundle of the messages "/a" with 5 and "ab" and "/a" with no argument
PairBundle ==
    WireBundle(NTP_IMMEDIATELY,
               <<WireMessage(<<TYPE_INT, TYPE_STRING>>), WireMessage(<<>>)>>)

\* the first bytes of the datagrams of two bundles, up to the whole datagram
CutBundles ==
    UNION { { SubSeq(dgram, 1, n) : n \in 0..Len(dgram) } :
            dgram \in {PairBundle, NestedBundle} }

\* one parse of one datagram: OSCBundle.parse keeps nothing between calls
NextCut ==
    /\ last.op = "none"
    /\ \E dgram \in CutBundles : BundleParse(dgram)

SpecCut == InitMessage /\ [][NextCut]_vars

(***************************************************************************)
(* The argument list of a message: append and remove.                      *)
(***************************************************************************)
\* the values a program removes: 1, True, "ab" and 7
RemoveInputs == {IntV(1), PyBool(TRUE), PyStr(<<97, 98>>), IntV(7)}

NextArgs ==
    \/ \E input \in TaggedInputs : MsgAppend(1, input[1], input[2])
    \/ \E value \in RemoveInputs : MsgRemove(1, value)

SpecArgs == InitMessage /\ [][NextArgs]_vars

(***************************************************************************)
(* The contents of a bundle: append, item assignment and deletion.         *)
(***************************************************************************)
\* the values a program gives a bundle that are no message and no bundle
OtherContents == {IntV(1), PyStr(<<120>>), PyNone, PyBytes(<<97, 98>>)}

\* the keys a program uses
Keys == {-1, 0, 1, 3}

NextContents ==
    \/ BundleNew(IMMEDIATELY)
    \/ \E k \in MsgIds : BundleAppendMessage(k)
    \/ BundleAppendBundle(NewBundle(IMMEDIATELY))
    \/ \E content \in OtherContents : BundleAppendOther(content)
    \/ \E key \in Keys, value \in OtherContents \cup {msgs[1]} :
          BundleSetItem(key, value)
    \/ \E key \in Keys : BundleDelItem(key)

SpecContents == InitBundle /\ [][NextContents]_vars

(***************************************************************************)
(* Integers appended without a tag: append, then build.                    *)
(***************************************************************************)
\* the ints a program appends: 1, -1, 2^31 - 1, 2^31, -2^31, -2^31 - 1,
\* 2^63 - 1 and -2^63
UntaggedInts ==
    { IntV(1), IntV(-1),
      PyInt(FALSE, <<127, 255, 255, 255>>),
      PyInt(FALSE, <<128, 0, 0, 0>>),
      PyInt(TRUE, <<128, 0, 0, 0>>),
      PyInt(TRUE, <<128, 0, 0, 1>>),
      PyInt(FALSE, <<127, 255, 255, 255, 255, 255, 255, 255>>),
      PyInt(TRUE, <<128, 0, 0, 0, 0, 0, 0, 0>>) }

NextInts ==
    \/ \E value \in UntaggedInts : MsgAppend(1, value, <<>>)
    \/ MsgBuild(1)

SpecInts == InitMessage /\ [][NextInts]_vars

(***************************************************************************)
(* Arguments appended with an explicit tag.                                *)
(***************************************************************************)
\* (value, _type) pairs whose tag is not supported: (1, 'X'), (1, 'ii'),
\* ("a", 'z') and (None, ',')
UnsupportedInputs ==
    { <<IntV(1), <<88>>>>,
      <<IntV(1), <<105, 105>>>>,
      <<PyStr(<<97>>), <<122>>>>,
      <<PyNone, <<44>>>> }

NextTags ==
    \E input \in TaggedInputs \cup UnsupportedInputs :
        MsgAppend(1, input[1], input[2])

SpecTags == InitMessage /\ [][NextTags]_vars

(***************************************************************************)
(* The address of a message: constructor, assignment, parse and build.     *)
(***************************************************************************)
\* the addresses a program gives: "/", "/a", "a", "/a b", "/ " and ""
AddressInputs ==
    Addresses \cup {<<47, 97, 32, 98>>, <<47, 32>>, <<>>}

\* message datagrams received: "/a" alone and with the argument 1, and
\* the address strings "/ ", "/a b" and "a"
AddressWire ==
    { <<47, 97, 0, 0>>,
      <<47, 97, 0, 0, 44, 105, 0, 0, 0, 0, 0, 1>>,
      <<47, 32, 0, 0>>,
      <<47, 97, 32, 98, 0, 0, 0, 0>>,
      <<97, 0, 0, 0>> }

NextAddress ==
    \/ \E address \in AddressInputs : MsgInit(1, address)
    \/ \E value \in AddressInputs : MsgAddress(1, value)
    \/ \E dgram \in AddressWire : MsgFromWire(1, dgram)
    \/ MsgBuild(1)

SpecAddress == InitMessage /\ [][NextAddress]_vars

(***************************************************************************)
(* Messages without arguments: build and parse.                            *)
(***************************************************************************)
\* the addresses "/", "/a", "/ab", "/abc" and "/abcd"
PlainAddresses ==
    {<<47>>, <<47, 97>>, <<47, 97, 98>>, <<47, 97, 98, 99>>,
     <<47, 97, 98, 99, 100>>}

\* the two datagrams of a message without arguments: the padded address
\* alone, and the padded address with the padded type tag string ","
NoArgsWire(address) ==
    { StringWrite(address).value,
      StringWrite(address).value \o StringWrite(<<44>>).value }

NextNoArgs ==
    \/ \E value \in PlainAddresses : MsgAddress(1, value)
    \/ MsgAppend(1, IntV(1), <<>>)
    \/ MsgBuild(1)
    \/ \E address \in PlainAddresses :
          \E dgram \in NoArgsWire(address) : MsgFromWire(1, dgram)

SpecNoArgs == InitMessage /\ [][NextNoArgs]_vars

(***************************************************************************)
(* Build and parse in cycles: x.build().build() and parse(d).build() for   *)
(* the datagram d of the build that was just made.                         *)
(***************************************************************************)
\* OSCMessage.parse(dgram).build()
MessageParsedBuild(parsed) ==
    IF ~parsed.ok THEN parsed ELSE OSCMessage_build(parsed.value)

\* message.build().build(): build() returns the message itself
MsgBuildAgain(k) ==
    LET built(r) ==
            /\ msgs' = IF r.ok THEN [msgs EXCEPT ![k] = r.value] ELSE msgs
            /\ last' = [op |-> "OSCMessage.build.build",
                        dgram |-> last.call.value.dgram, call |-> r]
    IN  /\ last.op = "OSCMessage.build"
        /\ last.call.ok
        /\ last.call.value = msgs[k]
        /\ built(OSCMessage_build(msgs[k]))
        /\ UNCHANGED <<bundle, now, clientVars, serverVars>>

\* OSCMessage.parse(message.build().dgram).build()
MsgParseBuild ==
    /\ last.op = "OSCMessage.build"
    /\ last.call.ok
    /\ last' = [op |-> "OSCMessage.parse.build",
                dgram |-> last.call.value.dgram,
                call |-> MessageParsedBuild(OSCMessage_parse(last.call.value.dgram))]
    /\ UNCHANGED <<msgs, bundle, now, clientVars, serverVars>>

\* bundle.build().build(): build() returns OSCBundle.parse(dgram) of the
\* datagram it made, so this is OSCBundle.parse(dgram).build() as well
BundleBuildAgain ==
    /\ last.op = "OSCBundle.build"
    /\ last.call.ok
    /\ last' = [op |-> "OSCBundle.build.build",
                dgram |-> last.call.value.dgram,
                call |-> OSCBundle_build(msgs, last.call.value)]
    /\ UNCHANGED <<msgs, bundle, now, clientVars, serverVars>>

NextCycle ==
    \/ \E input \in TaggedInputs : MsgAppend(1, input[1], input[2])
    \/ \E k \in MsgIds : MsgBuild(k)
    \/ \E k \in MsgIds : MsgBuildAgain(k)
    \/ MsgParseBuild
    \/ \E timestamp \in Timestamps : BundleNew(timestamp)
    \/ \E k \in MsgIds : BundleAppendMessage(k)
    \/ BundleBuild
    \/ BundleBuildAgain

SpecCycle == InitBundle /\ [][NextCycle]_vars

(***************************************************************************)
(* OSCBundle.parse on datagrams whose first eight bytes are not the        *)
(* prefix of a bundle.                                                     *)
(***************************************************************************)
\* bundle datagrams, and each of them with one of its first eight bytes
\* replaced by 0, '#', '/' or 255
PrefixWire ==
    LET whole == { WireBundle(NTP_IMMEDIATELY, <<>>), UnalignedBundle,
                   PairBundle, NestedBundle }
    IN  whole \cup
        { [dgram EXCEPT ![i] = b] :
            dgram \in whole, i \in 1..Len(_BUNDLE_PREFIX), b \in {0, 35, 47, 255} }

\* one parse of one datagram: OSCBundle.parse keeps nothing between calls
NextPrefix ==
    /\ last.op = "none"
    /\ \E dgram \in PrefixWire : BundleParse(dgram)

SpecPrefix == InitMessage /\ [][NextPrefix]_vars

(***************************************************************************)
(* OSCBundle.parse on bundles whose elements declare any size.             *)
(***************************************************************************)
\* the size fields -16, -12, -8, -4, -1, 0, 4 and 12
SizeFields ==
    { <<255, 255, 255, 240>>, <<255, 255, 255, 244>>, <<255, 255, 255, 248>>,
      <<255, 255, 255, 252>>, <<255, 255, 255, 255>>, <<0, 0, 0, 0>>,
      <<0, 0, 0, 4>>, <<0, 0, 0, 12>> }

\* bundles of a size field, the message "/a" with 5, a second size field
\* and nothing or the message again
SizedWire ==
    LET m == WireMessage(<<TYPE_INT>>)
    IN  { _BUNDLE_PREFIX \o NTP_IMMEDIATELY \o first \o m \o second \o rest :
            first \in SizeFields, second \in SizeFields, rest \in {<<>>, m} }

\* one parse of one datagram: OSCBundle.parse keeps nothing between calls
NextSized ==
    /\ last.op = "none"
    /\ \E dgram \in SizedWire : BundleParse(dgram)

SpecSized == InitMessage /\ [][NextSized]_vars

(***************************************************************************)
(* A bundle and the messages and bundles appended to it, while the         *)
(* messages change.                                                        *)
(***************************************************************************)
NextShare ==
    \/ MsgAppend(1, IntV(1), <<>>)
    \/ BundleNew(IMMEDIATELY)
    \/ \E k \in MsgIds : BundleAppendMessage(k)
    \/ BundleAppendBundle(bundle)
    \/ BundleBuild

SpecShare == InitBundle /\ [][NextShare]_vars

(***************************************************************************)
(* Messages with a blob whose length field is any int32.                   *)
(***************************************************************************)
\* the length fields -16, -12, -8, -4, -1, 0, 1, 3, 4, 5, 8 and 2147483392
BlobLengths ==
    { <<255, 255, 255, 240>>, <<255, 255, 255, 244>>, <<255, 255, 255, 248>>,
      <<255, 255, 255, 252>>, <<255, 255, 255, 255>>, <<0, 0, 0, 0>>,
      <<0, 0, 0, 1>>, <<0, 0, 0, 3>>, <<0, 0, 0, 4>>, <<0, 0, 0, 5>>,
      <<0, 0, 0, 8>>, <<127, 255, 255, 0>> }

\* the messages "/a" with the type tags "b", "bi" and "bb": a length field
\* and the bytes after it
BlobWire ==
    { <<47, 97, 0, 0>> \o typetag \o length \o rest :
        typetag \in { <<44, 98, 0, 0>>, <<44, 98, 105, 0>>, <<44, 98, 98, 0>> },
        length \in BlobLengths,
        rest \in { <<>>, <<97, 98, 99>>, <<97, 98, 0, 0>>, <<0, 0, 0, 5>> } }

\* the index of the first argument in a datagram of BlobWire: the length
\* of the address and of the type tags
BlobIndex == Len(<<47, 97, 0, 0>>) + Len(<<44, 98, 0, 0>>)

\* one parse of one datagram, or one read of its blob
NextBlob ==
    \/ \E dgram \in BlobWire : last.op = "none" /\ MsgParse(dgram)
    \/ \E dgram \in BlobWire :
          last.op = "none" /\ TypeRead(<<TYPE_BLOB>>, dgram, BlobIndex)

SpecBlob == InitMessage /\ [][NextBlob]_vars

(***************************************************************************)
(* Properties.                                                             *)
(***************************************************************************)
\* equality of two argument values under their tag: a float32 compares as
\* the four bytes it is written to
SameValue(tag, x, y) ==
    IF tag = <<TYPE_FLOAT>> /\ x.py = "float" /\ y.py = "float"
    THEN StructPackFloat(x) = StructPackFloat(y)
    ELSE PyEq(x, y)

SameArgs(a, b) ==
    /\ Len(a) = Len(b)
    /\ \A i \in 1..Len(a) : a[i][1] = b[i][1] /\ SameValue(a[i][1], a[i][2], b[i][2])

\* building msg changes nothing: its datagram is the one build() makes
IsBuilt(msg) == OSCMessage_build(msg) = Ret(msg, -1)

\* C1: for every valid address and every argument list with supported tags,
\* OSCMessage.parse(m.build().dgram) has the address of m and the argument
\* values of m, in order, under tag-aware equality.
C1_MessageRoundTrip ==
    (last.op = "OSCMessage.parse" /\ IsBuilt(msgs[1])
        /\ last.dgram = msgs[1].dgram) =>
        /\ last.call.ok
        /\ last.call.value.address = msgs[1].address
        /\ SameArgs(last.call.value.args, msgs[1].args)

\* an element as parsed against the element it was built from
RECURSIVE SameContent(_, _)
SameContent(a, b) ==
    IF a.py # b.py THEN FALSE
    ELSE IF a.py = "OSCMessage"
    THEN a.address = b.address /\ SameArgs(a.args, b.args)
    ELSE /\ PyEq(a.timestamp, b.timestamp)
         /\ Len(a.contents) = Len(b.contents)
         /\ \A i \in 1..Len(a.contents) :
               SameContent(a.contents[i], Deref(msgs, b.contents[i]))

\* C2: for every valid bundle (time tag IMMEDIATELY or a system time,
\* elements messages or nested bundles), OSCBundle.parse(b.build().dgram)
\* has the time tag of b and the elements of b in order, nested bundles
\* preserved.
C2_BundleRoundTrip ==
    (last.op = "OSCBundle.build" /\ last.call.ok) =>
        SameContent(OSCBundle_parse(last.call.value.dgram).value, bundle)

\* the flat element count of a message or bundle
RECURSIVE ElementCount(_)
RECURSIVE ElementCounts(_)
ElementCounts(contents) ==
    IF contents = <<>> THEN 0
    ELSE ElementCount(Head(contents)) + ElementCounts(Tail(contents))
ElementCount(x) ==
    IF x.py = "OSCMessage" THEN 1 ELSE ElementCounts(x.contents)

\* C8: the element count exposed for a parsed packet is flat: 1 for a bare
\* message, the sum of the counts of its children for a bundle.
C8_FlatElementCount ==
    (last.op = "OSCPacket" /\ last.call.ok) =>
        last.length = Ret(IntV(ElementCount(last.call.value.message)), -1)

\* C9: every datagram build() makes of a message or of a bundle has a
\* length that is a multiple of 4.
C9_BuiltLengthAligned ==
    (last.op \in {"OSCMessage.build", "OSCBundle.build"} /\ last.call.ok) =>
        Len(last.call.value.dgram) % 4 = 0

\* the type tags of a received message datagram after the comma
WireTags(dgram) == Tail(StringRead(dgram, 4).value)

\* the arguments the tags a parser knows stand for in a received datagram
WireValue(c) ==
    CASE c = TYPE_INT -> IntV(5)
      [] c = TYPE_STRING -> PyStr(<<97, 98>>)
      [] c = TYPE_TRUE -> PyBool(TRUE)

WireArgs(tags) ==
    LET known == SelectSeq(tags, LAMBDA c : OSCType_is_supported(<<c>>))
    IN  [i \in 1..Len(known) |-> <<<<known[i]>>, WireValue(known[i])>>]

HasUnknownTag(dgram) ==
    \E i \in 1..Len(WireTags(dgram)) :
        ~OSCType_is_supported(<<WireTags(dgram)[i]>>)

\* C10: parsing a message whose type tag string holds tags the parser does
\* not know does not raise; each such tag is skipped and reads no payload,
\* and the result holds the arguments of the known tags, in order.
C10_UnknownTagsSkipped ==
    (last.op = "OSCMessage.parse" /\ HasUnknownTag(last.dgram)) =>
        /\ last.call.ok
        /\ last.call.value.address = <<47, 97>>
        /\ last.call.value.args = WireArgs(WireTags(last.dgram))

\* C10: a datagram with the tags "i", an unknown "x" and "s" was parsed to
\* its two known arguments
C10_Witness ==
    /\ last.op = "OSCMessage.parse"
    /\ WireTags(last.dgram) = <<TYPE_INT, 120, TYPE_STRING>>
    /\ last.call.ok
    /\ Len(last.call.value.args) = 2

\* the wall-clock second the time tag of a bundle datagram names: its NTP
\* seconds since 1900, unsigned, less the seconds from 1900 to 1970
TimeTagSecond(dgram) ==
    MagToNat(MagSub(StripZeros(SubSeq(dgram, 9, 12)), _NTP_DELTA))

\* the time tag of a bundle datagram is a wall-clock time later than time
IsLater(dgram, time) ==
    /\ ~MagLess(StripZeros(SubSeq(dgram, 9, 12)), _NTP_DELTA)
    /\ TimeTagSecond(dgram) > time

\* C3: when the server receives a bundle whose time tag is a wall-clock time
\* later than now, the handler is not invoked for that datagram until that
\* time has been reached.
C3_FutureBundleDelayed ==
    \A i \in 1..Len(handled) :
        (handled[i].message.py = "OSCBundle"
         /\ IsLater(handled[i].message.dgram, handled[i].date))
        => handled[i].at >= TimeTagSecond(handled[i].message.dgram)

\* the message datagrams of ServerWire that are well-formed OSC messages
ValidMessageWire ==
    { WireMessage(<<TYPE_INT, TYPE_STRING>>),
      WireMessage(<<>>),
      CharWire }

\* C4: for any sequence of N valid message datagrams arriving at the server,
\* the handler is invoked exactly N times, in datagram arrival order, each
\* time with (client_address, parsed message, receive time).
C4_EveryMessageHandledInOrder ==
    /\ []((queue = <<>>
           /\ \A i \in 1..Len(arrived) : arrived[i].data \in ValidMessageWire)
          => /\ Len(handled) = Len(arrived)
             /\ \A i \in 1..Len(arrived) :
                  /\ handled[i].address = arrived[i].client_address
                  /\ handled[i].message.py = "OSCMessage"
                  /\ handled[i].message.dgram = arrived[i].data)
    /\ [][Len(handled') > Len(handled)
          => handled'[Len(handled')].date = now]_vars

\* C5: send(msg) with a valid message or bundle calls sendto exactly once per
\* destination, in the order of the destination list, each time with the
\* bytes of msg.build().dgram and that destination's (host, port); with no
\* destinations nothing is sent.
C5_SendOncePerDestination ==
    (last.op = "OSCClient.send"
     /\ last.message.py \in {"OSCMessage", "OSCBundle"}
     /\ BuildDgram(last.message).ok)
    => /\ Len(sent) = Len(clients)
       /\ \A i \in 1..Len(sent) :
            /\ sent[i].dgram = BuildDgram(last.message).value.dgram
            /\ sent[i].address = clients[i]

\* C5 happens: a message was sent to two different destinations
C5_Witness ==
    /\ last.op = "OSCClient.send"
    /\ last.call.ok
    /\ Len(clients) = 2
    /\ clients[1] # clients[2]
    /\ Len(sent) = 2

\* C6: in every sequence of add/remove/clear/send/close calls, a send of a
\* valid message never passes a datagram to a closed socket: a closed client
\* first opens a fresh socket and clears the closed flag, then transmits on
\* that socket.
C6_SendNeverUsesClosedSocket ==
    /\ \A i \in 1..Len(sent) : sent[i].open
    /\ (last.op = "OSCClient.send"
        /\ last.message.py \in {"OSCMessage", "OSCBundle"})
       => /\ ~closed
          /\ sockets[socket].closes = 0
          /\ \A i \in 1..Len(sent) : sent[i].socket = socket

\* C6 happens: a send after close() transmitted on a second socket
C6_Witness ==
    /\ last.op = "OSCClient.send"
    /\ last.call.ok
    /\ Len(sent) >= 1
    /\ Len(sockets) = 2
    /\ sockets[1].closes = 1
    /\ sent[1].socket = 2

\* C7: close() is idempotent: close() on a closed client changes nothing, every
\* socket the client opened is closed at most once, and the client never
\* holds more than one unclosed socket.
C7_CloseIdempotent ==
    /\ [](/\ \A id \in 1..Len(sockets) : sockets[id].closes <= 1
          /\ Cardinality({id \in 1..Len(sockets) : sockets[id].closes = 0}) <= 1)
    /\ [][(closed /\ last'.op = "OSCClient.close") => UNCHANGED clientVars]_vars

\* C7 happens: close() was called on a closed client that had reopened once
C7_Witness ==
    /\ last.op = "OSCClient.close"
    /\ last.was_closed
    /\ Len(sockets) = 2

\* the bytes the wire representation of a value of a type needs at index:
\* the fixed size of the type, a string up to its zero byte and padding, a
\* blob its size and its padded bytes
RECURSIVE ZeroAt(_, _)
ZeroAt(data, index) ==
    IF index >= Len(data) THEN Len(data) + 1
    ELSE IF data[index + 1] = 0 THEN index
    ELSE ZeroAt(data, index + 1)

WireNeeds(_type, data, index) ==
    CASE _type \in {<<TYPE_INT>>, <<TYPE_UINT>>, <<TYPE_FLOAT>>, <<TYPE_CHAR>>,
                    <<TYPE_COLOR>>, <<TYPE_MIDI>>} -> 4
      [] _type \in {<<TYPE_INT64>>, <<TYPE_DOUBLE>>, <<TYPE_TIMETAG>>} -> 8
      [] _type = <<TYPE_STRING>> ->
            ((ZeroAt(data, index) - index) \div 4) * 4 + 4
      [] _type = <<TYPE_BLOB>> ->
            IF Len(data) - index < 4 THEN 4
            ELSE 4 + ((MagToNat(SubSeq(data, index + 1, index + 4)) + 3) \div 4) * 4

\* C11: every atomic decoder, given fewer bytes at the offset than its wire
\* representation needs, fails with OSCParseError rather than returning a
\* value.
C11_ShortReadRaises ==
    (last.op = "OSCType.type"
     /\ Len(last.data) - last.index < WireNeeds(last.type, last.data, last.index))
    => (~last.call.ok /\ last.call.err = "OSCParseError")

\* the datagrams sent to the server that do not conform to OSC
NotOSC == MalformedWire \cup {<<47, 97, 0, 0, 44, 105, 0, 0>>, <<97, 98, 99, 0>>}

\* C12: the server drops every received datagram that does not conform to
\* OSC: the handler is not invoked for it and no exception propagates out of
\* the request handler, which returns to serve the later datagrams.
C12_MalformedDropped ==
    /\ \A i \in 1..Len(handled) : handled[i].message.dgram \notin NotOSC
    /\ (last.op = "handle" /\ last.request.data \in NotOSC) => last.call.ok

\* the packet or the exception OSCPacket(dgram) ends with when dgram is
\* parsed by a parser with the outcome r
PacketOf(dgram, r) ==
    /\ last.call.ok = r.ok
    /\ last.call.err = r.err
    /\ r.ok => /\ last.call.value.message = r.value
               /\ last.call.value.dgram = dgram

\* C13: OSCPacket classifies raw bytes by prefix: bytes starting with the
\* bundle prefix are parsed as a bundle, otherwise bytes starting with "/"
\* are parsed as a message, otherwise (the empty datagram included)
\* construction fails with OSCParseError.
C13_PacketClassified ==
    last.op = "OSCPacket" =>
        IF StartsWith(last.dgram, <<35, 98, 117, 110, 100, 108, 101, 0>>)
        THEN PacketOf(last.dgram, OSCBundle_parse(last.dgram))
        ELSE IF StartsWith(last.dgram, <<47>>)
        THEN PacketOf(last.dgram, OSCMessage_parse(last.dgram))
        ELSE ~last.call.ok /\ last.call.err = "OSCParseError"

\* C13 happens: a packet was made of the nested bundle, and it holds a bundle
C13_Witness ==
    /\ last.op = "OSCPacket"
    /\ last.dgram = NestedBundle
    /\ last.call.ok
    /\ last.call.value.message.py = "OSCBundle"

\* the size an element declares at index, for a size below 2^31
DeclaredSize(dgram, index) == MagToNat(SubSeq(dgram, index + 1, index + 4))

\* an element of the bundle, from the one at index on, declares a size
\* larger than the number of bytes that remain after the size
RECURSIVE Overruns(_, _)
Overruns(dgram, index) ==
    IF Len(dgram) - index < 4 THEN FALSE
    ELSE \/ DeclaredSize(dgram, index) > Len(dgram) - index - 4
         \/ Overruns(dgram, index + 4 + DeclaredSize(dgram, index))

\* a bundle datagram shorter than prefix and time tag, or with an element
\* that runs over the end
IsTruncated(dgram) == Len(dgram) < 16 \/ Overruns(dgram, 16)

\* C14: a truncated bundle datagram is rejected wholesale with
\* OSCParseError, both when it is shorter than prefix plus time tag and when
\* an element's declared length exceeds the bytes remaining after it; no
\* partially parsed bundle is returned.
C14_TruncatedBundleRejected ==
    (last.op = "OSCBundle.parse" /\ IsTruncated(last.dgram))
    => (~last.call.ok /\ last.call.err = "OSCParseError")

\* the places of the arguments of a list whose value equals value
Matches(args, value) == {i \in 1..Len(args) : PyEq(value, args[i][2])}

\* the list without its first argument that equals value
WithoutFirst(args, value) ==
    LET first == CHOOSE i \in Matches(args, value) :
                    \A j \in Matches(args, value) : i <= j
    IN  SubSeq(args, 1, first - 1) \o SubSeq(args, first + 1, Len(args))

\* C15: remove(value) deletes the first argument (index 0 included) whose
\* value equals value and leaves the other arguments and their order
\* unchanged; it raises ValueError only when no argument has that value.
C15_RemoveFirstMatch ==
    last.op = "OSCMessage.remove" =>
        IF Matches(last.before, last.value) = {}
        THEN /\ ~last.call.ok
             /\ last.call.err = "ValueError"
             /\ msgs[1].args = last.before
        ELSE /\ last.call.ok
             /\ msgs[1].args = WithoutFirst(last.before, last.value)

\* C17: after any sequence of bundle operations every element of a bundle is
\* an OSCMessage or an OSCBundle: append of any other value raises
\* OSCBuildError and leaves the contents unchanged.
C17_OnlyMessagesAndBundles ==
    /\ \A i \in 1..Len(bundle.contents) :
          Deref(msgs, bundle.contents[i]).py \in {"OSCMessage", "OSCBundle"}
    /\ (last.op = "OSCBundle.append"
        /\ last.content.py \notin {"OSCMessage", "OSCBundle"})
       => /\ ~last.call.ok
          /\ last.call.err = "OSCBuildError"
          /\ bundle.contents = last.before

\* C17 happens: append("x") was refused by a bundle that holds two elements
C17_Witness ==
    /\ last.op = "OSCBundle.append"
    /\ last.content = PyStr(<<120>>)
    /\ ~last.call.ok
    /\ Len(bundle.contents) = 2

\* an int lies in the signed range of w bytes
InSigned(v, w) ==
    \/ Len(v.mag) < w
    \/ Len(v.mag) = w /\ v.mag[1] < 128
    \/ v.neg /\ v.mag = <<128>> \o [k \in 1..(w - 1) |-> 0]

\* C16: an int appended without a tag gets the tag 'i' when it lies in the
\* signed 32-bit range and the tag 'h' otherwise, and a message whose
\* arguments are ints of the signed 64-bit range appended without a tag
\* builds.
C16_UntaggedIntBuilds ==
    /\ (/\ last.op = "OSCMessage.append"
        /\ last.type = <<>>
        /\ last.value.py = "int"
        /\ InSigned(last.value, 8))
       => /\ last.call.ok
          /\ msgs[1].args =
                Append(last.before,
                       <<IF InSigned(last.value, 4) THEN <<TYPE_INT>>
                         ELSE <<TYPE_INT64>>, last.value>>)
    /\ (/\ last.op = "OSCMessage.build"
        /\ \A i \in 1..Len(msgs[1].args) :
              /\ msgs[1].args[i][2].py = "int"
              /\ InSigned(msgs[1].args[i][2], 8))
       => last.call.ok

GrammarChars ==
    (97..122) \cup (65..90) \cup (48..57) \cup {47, 95, 45, 63, 42, 91, 93}

WellFormedAddress(address) ==
    \/ address = <<47>>
    \/ Len(address) >= 2 /\ address[1] = 47 /\ address[2] \in GrammarChars

\* the bytes of a datagram before its first zero byte
RECURSIVE UpToZero(_)
UpToZero(dgram) ==
    IF dgram = <<>> \/ Head(dgram) = 0 THEN <<>>
    ELSE <<Head(dgram)>> \o UpToZero(Tail(dgram))

\* C19: the datagram build() makes starts, up to its first zero byte, with
\* a well-formed address, whether the message comes from the constructor,
\* an assignment of the address or the parse of a datagram; the constructor
\* and the assignment refuse an address that is not well-formed with
\* ValueError and keep the address the message had.
C19_BuiltAddressWellFormed ==
    /\ (last.op = "OSCMessage.build" /\ last.call.ok)
       => WellFormedAddress(UpToZero(last.call.value.dgram))
    /\ (/\ last.op \in {"OSCMessage", "OSCMessage.address"}
        /\ ~WellFormedAddress(last.value))
       => /\ ~last.call.ok
          /\ last.call.err = "ValueError"
          /\ msgs[1].address = last.before

\* a string followed by one to four zero bytes, up to a multiple of four
ZeroPadded(s) == s \o [k \in 1..(4 - (Len(s) % 4)) |-> 0]

\* C20: build() of a message without arguments makes the padded address
\* and nothing else, and parse takes the padded address alone and the
\* padded address followed by the padded string "," each as a message of
\* that address without arguments.
C20_NoArgsBothForms ==
    /\ (last.op = "OSCMessage.build" /\ msgs[1].args = <<>>)
       => /\ last.call.ok
          /\ last.call.value.dgram = ZeroPadded(msgs[1].address)
    /\ \A address \in PlainAddresses :
          (/\ last.op = "OSCMessage.parse"
           /\ \/ last.dgram = ZeroPadded(address)
              \/ last.dgram = ZeroPadded(address) \o <<44, 0, 0, 0>>)
          => /\ last.call.ok
             /\ last.call.value.address = address
             /\ last.call.value.args = <<>>

\* C20: "/ab" followed by the padded "," is parsed
C20_Witness ==
    /\ last.op = "OSCMessage.parse"
    /\ last.dgram = <<47, 97, 98, 0, 44, 0, 0, 0>>
    /\ last.call.ok
    /\ msgs[1].args = <<>>

\* C21: a bundle of the time tag IMMEDIATELY is built with the bytes
\* 00 00 00 00 00 00 00 01 after the prefix and comes back from build()
\* with the time tag IMMEDIATELY, and a bundle datagram parsed with these
\* eight bytes after the prefix has the time tag IMMEDIATELY.
C21_ImmediatelyRoundTrip ==
    /\ (last.op = "OSCBundle.build" /\ bundle.timestamp = IMMEDIATELY)
       => /\ last.call.ok
          /\ SubSeq(last.call.value.dgram, 9, 16) = <<0, 0, 0, 0, 0, 0, 0, 1>>
          /\ last.call.value.timestamp = IMMEDIATELY
    /\ (/\ last.op = "OSCBundle.parse"
        /\ Len(last.dgram) >= 16
        /\ SubSeq(last.dgram, 9, 16) = <<0, 0, 0, 0, 0, 0, 0, 1>>
        /\ last.call.ok)
       => last.call.value.timestamp = IMMEDIATELY

\* C21: a bundle of a message for IMMEDIATELY is built
C21_Witness ==
    /\ last.op = "OSCBundle.build"
    /\ last.call.ok
    /\ bundle.timestamp = IMMEDIATELY
    /\ Len(bundle.contents) = 1
    /\ last.call.value.timestamp = IMMEDIATELY

\* C23: after build() the object built holds the datagram build() made:
\* the message its own, the bundle its own.
C23_BuildFillsOwnDatagram ==
    /\ (last.op = "OSCMessage.build" /\ last.call.ok)
       => \E k \in MsgIds :
             /\ msgs[k] = last.call.value
             /\ msgs[k].dgram # <<>>
    /\ (last.op = "OSCBundle.build" /\ last.call.ok)
       => bundle.dgram = last.call.value.dgram

\* C22: building what build() returned makes the same datagram again, and
\* parsing a datagram build() made and building the result makes that
\* datagram, for messages and for bundles.
C22_BuildFixedPoint ==
    last.op \in {"OSCMessage.build.build", "OSCMessage.parse.build",
                 "OSCBundle.build.build"}
    => /\ last.call.ok
       /\ last.call.value.dgram = last.dgram

\* C24: send(x) with x no message and no bundle raises ValueError, calls
\* sendto for no destination and leaves the destinations, the socket and
\* the closed flag as they were: a closed client stays closed.
C24_SendRefusesOtherValues ==
    [][(/\ last'.op = "OSCClient.send"
        /\ last'.message.py \notin {"OSCMessage", "OSCBundle"})
       => /\ ~last'.call.ok
          /\ last'.call.err = "ValueError"
          /\ sent' = <<>>
          /\ UNCHANGED <<clients, socket, closed, sockets>>]_vars

\* C24: a closed client with a destination refused to send a string
C24_Witness ==
    /\ last.op = "OSCClient.send"
    /\ last.message.py = "str"
    /\ ~last.call.ok
    /\ closed
    /\ Len(clients) = 1
    /\ sockets[socket].closes = 1

\* C25: OSCBundle.parse of a datagram that does not begin with the eight
\* bytes of the bundle prefix returns no bundle and raises OSCParseError.
C25_PrefixVerified ==
    (/\ last.op = "OSCBundle.parse"
     /\ SubSeq(last.dgram, 1, 8) # <<35, 98, 117, 110, 100, 108, 101, 0>>)
    => /\ ~last.call.ok
       /\ last.call.err = "OSCParseError"

\* C26: bundle[key] = value raises IndexError when key is not below the
\* length; with a key from 0 below the length it puts a message or a bundle
\* in the place of the element at key and leaves the other elements alone,
\* and raises TypeError for any other value.
C26_SetItemReplaces ==
    last.op = "OSCBundle.__setitem__" =>
        IF last.key >= Len(last.before)
        THEN /\ ~last.call.ok
             /\ last.call.err = "IndexError"
             /\ bundle.contents = last.before
        ELSE IF last.key < 0 THEN TRUE
        ELSE IF last.content.py \in {"OSCMessage", "OSCBundle"}
        THEN /\ last.call.ok
             /\ Len(bundle.contents) = Len(last.before)
             /\ \A i \in 1..Len(last.before) :
                   IF i = last.key + 1
                   THEN Deref(msgs, bundle.contents[i]) = last.content
                   ELSE bundle.contents[i] = last.before[i]
        ELSE /\ ~last.call.ok
             /\ last.call.err = "TypeError"
             /\ bundle.contents = last.before

\* C27: OSCBundle.parse comes to an end on every datagram, with a bundle or
\* with an exception, whatever the sizes its elements declare, zero and
\* negative sizes included.
C27_ParseTerminates ==
    last.op = "OSCBundle.parse" => last.call # NeverReturns

\* the elements of a bundle as build() writes them from what each holds:
\* the size and the datagram the message has now, or the appended bundle
\* had when it was appended
RECURSIVE CachedWire(_)
CachedWire(contents) ==
    IF contents = <<>> THEN <<>>
    ELSE LET dgram == Deref(msgs, Head(contents)).dgram
         IN  <<0, 0, 0, Len(dgram)>> \o dgram \o CachedWire(Tail(contents))

CalledOnceWith(address, packet, before, after) ==
    packet.ok
    => /\ Len(after) = Len(before) + 1
       /\ SubSeq(after, 1, Len(before)) = before
       /\ after[Len(after)].address = address
       /\ after[Len(after)].message = packet.value.message

\* C29: a handle() that returns on a datagram that passed verify_request
\* and that OSCPacket parsed has called the callback once, with the root of
\* the packet: for a bundle the bundle, whatever it holds; and no step of
\* the server makes more than one call.
C29_OneCallPerDatagram ==
    [][/\ Len(handled') <= Len(handled) + 1
       /\ (queue # <<>> /\ queue' = Tail(queue) /\ last'.op = "handle")
          => CalledOnceWith(Head(queue).client_address,
                            OSCPacket(Head(queue).data, now),
                            handled, handled')]_vars

\* C29: the callback was called once for the bundle {msg, msg,
\* bundle{msg, bundle{msg}}}, and all the server received is served
C29_Witness ==
    /\ queue = <<>>
    /\ Len(arrived) = 1
    /\ arrived[1].data = NestedBundle
    /\ Len(handled) = 1
    /\ handled[1].message.py = "OSCBundle"
    /\ Len(handled[1].message.contents) = 3

\* the int32 of the four bytes at index, read as big-endian two's complement
Int32At(data, index) ==
    LET b(k) == data[index + k]
    IN  IF b(1) >= 128
        THEN -((255 - b(1)) * 16777216 + (255 - b(2)) * 65536
               + (255 - b(3)) * 256 + (255 - b(4)) + 1)
        ELSE b(1) * 16777216 + b(2) * 65536 + b(3) * 256 + b(4)

\* the length field of the blob at index is negative or larger than the
\* number of bytes after it
MalformedBlob(data, index) ==
    /\ Len(data) >= index + 4
    /\ \/ Int32At(data, index) < 0
       \/ Int32At(data, index) > Len(data) - (index + 4)

\* C30: the read of a blob never gives an offset before the one it started
\* from, and a blob whose length field is negative or larger than the bytes
\* remaining makes the read, and the parse of the message it is in, fail
\* with OSCParseError.
C30_MalformedBlobRefused ==
    /\ last.op = "OSCType.type"
       => /\ last.call.ok => last.call.index >= last.index
          /\ MalformedBlob(last.data, last.index)
             => last.call = Raise("OSCParseError")
    /\ (last.op = "OSCMessage.parse" /\ MalformedBlob(last.dgram, BlobIndex))
       => last.call = Raise("OSCParseError")

====
